---- MODULE Spec2Model ----
(***************************************************************************)
(* A model of the Go certificate extractor of vehub/ca-bundle              *)
(* (src/main.go): target resolution (parseTarget), the protocol dispatch   *)
(* of extractCertificates, the network sessions of getTLSCertificates,     *)
(* getSMTPCertificates and getTLSCertificatesWithSTARTTLS, and the write   *)
(* phase.                                                                  *)
(*                                                                         *)
(* Go strings are modelled as sequences of one-character strings, so that  *)
(* strings.Contains, strings.SplitN, strings.Index, strings.ToLower,       *)
(* net.SplitHostPort and strconv.Atoi are computed character by character. *)
(***************************************************************************)
EXTENDS Integers, Sequences, FiniteSets, TLC

VARIABLES
    parts,      \* the pieces the command-line target was assembled from
    target,     \* config.Target, a string
    pc,         \* position of the single thread of control
    res,        \* what parseTarget returned: server, port, protocol, err
    stProto,    \* the protocol argument of getTLSCertificatesWithSTARTTLS
    conns,      \* the TCP connections opened so far, each with its operations
    net,        \* the peer and the socket buffer of the newest connection
    certs,      \* the chain the handshake stage returned
    err,        \* the error extractCertificates returns, "" for none
    fs,         \* the files of the working directory
    dir0,       \* the working directory as it was when the run started
    verbose,    \* config.Verbose
    certNo,     \* createIndividualCertificates: i + 1 of its loop
    filename,   \* createIndividualCertificates: filename
    out,        \* the lines the write phase printed on standard output
    other,      \* a second invocation, writing in the same directory
    run,        \* 1 for a first invocation, 2 for one repeated after it
    sc          \* a run of sslcerts.sh or sslcerts.ps1: its shell variables

----------------------------------------------------------------------------
(* String constants *)

sHttps == <<"h", "t", "t", "p", "s">>
sTls == <<"t", "l", "s">>
sSmtp == <<"s", "m", "t", "p">>
sImap == <<"i", "m", "a", "p">>
sPop3 == <<"p", "o", "p", "3">>
sFtp == <<"f", "t", "p">>
sSMTP == <<"S", "M", "T", "P">>
hMail == <<"m", "a", "i", "l", ".", "e", "x", "a", "m", "p", "l", "e", ".", "c", "o", "m">>
hShort == <<"h">>
hV6 == <<"[", ":", ":", "1", "]">>
SchemeSep == <<":", "/", "/">>
Colon == <<":">>
Slash == <<"/">>
Empty == <<>>

----------------------------------------------------------------------------
(* The standard-library string functions parseTarget calls *)

\* s[from:] of Go, with a 0-based offset
Tail0(s, from) == SubSeq(s, from + 1, Len(s))

\* s[:to] of Go, with a 0-based end offset
Head0(s, to) == SubSeq(s, 1, to)

\* strings.Index(s, sub): the 0-based offset of the first occurrence, or -1
Index(s, sub) ==
    LET hits == { i \in 0..(Len(s) - Len(sub)) :
                    SubSeq(s, i + 1, i + Len(sub)) = sub }
    IN IF hits = {} THEN -1
       ELSE CHOOSE i \in hits : \A j \in hits : i <= j

\* bytealg.LastIndexByteString(s, c): the 0-based offset of the last c, or -1
LastIndex(s, c) ==
    LET hits == { i \in 0..(Len(s) - 1) : s[i + 1] = c }
    IN IF hits = {} THEN -1
       ELSE CHOOSE i \in hits : \A j \in hits : i >= j

\* strings.Contains(s, sub)
Contains(s, sub) == Index(s, sub) # -1

\* strings.SplitN(s, sep, 2) for an s that contains sep
SplitN2(s, sep) ==
    LET i == Index(s, sep)
    IN << Head0(s, i), Tail0(s, i + Len(sep)) >>

\* strings.ToLower on one character
LowerChar(c) ==
    CASE c = "S" -> "s"
      [] c = "M" -> "m"
      [] c = "T" -> "t"
      [] c = "P" -> "p"
      [] OTHER -> c

\* strings.ToLower(s)
ToLower(s) == [ i \in 1..Len(s) |-> LowerChar(s[i]) ]

Digits == {"0", "1", "2", "3", "4", "5", "6", "7", "8", "9"}

DigitVal(c) ==
    CASE c = "0" -> 0 [] c = "1" -> 1 [] c = "2" -> 2 [] c = "3" -> 3
      [] c = "4" -> 4 [] c = "5" -> 5 [] c = "6" -> 6 [] c = "7" -> 7
      [] c = "8" -> 8 [] c = "9" -> 9

RECURSIVE DecVal(_)
DecVal(ds) ==
    IF Len(ds) = 0 THEN 0
    ELSE DecVal(Head0(ds, Len(ds) - 1)) * 10 + DigitVal(ds[Len(ds)])

\* strconv.Atoi(s): an optional sign, then one or more decimal digits
Atoi(s) ==
    LET signed == Len(s) > 0 /\ s[1] \in {"-", "+"}
        ds == IF signed THEN Tail0(s, 1) ELSE s
    IN IF Len(ds) = 0 \/ \E i \in 1..Len(ds) : ds[i] \notin Digits
       THEN [val |-> 0, err |-> TRUE]
       ELSE [val |-> IF s[1] = "-" THEN 0 - DecVal(ds) ELSE DecVal(ds),
             err |-> FALSE]

DigitChar(d) ==
    CASE d = 0 -> "0" [] d = 1 -> "1" [] d = 2 -> "2" [] d = 3 -> "3"
      [] d = 4 -> "4" [] d = 5 -> "5" [] d = 6 -> "6" [] d = 7 -> "7"
      [] d = 8 -> "8" [] d = 9 -> "9"

\* the %d verb of fmt.Sprintf on a non-negative integer
RECURSIVE Itoa(_)
Itoa(n) ==
    IF n < 10 THEN <<DigitChar(n)>>
    ELSE Itoa(n \div 10) \o <<DigitChar(n % 10)>>

\* net.SplitHostPort(hostport)
SplitHostPort(hostport) ==
    LET i == LastIndex(hostport, ":")
        bad == [host |-> Empty, port |-> Empty, err |-> TRUE]
    IN IF i < 0 THEN bad
       ELSE IF hostport[1] = "["
       THEN LET end == Index(hostport, <<"]">>)
            IN IF end < 0 THEN bad
               ELSE IF end + 1 # i THEN bad
               ELSE IF Contains(Tail0(hostport, 1), <<"[">>) THEN bad
               ELSE IF Contains(Tail0(hostport, end + 1), <<"]">>) THEN bad
               ELSE [host |-> SubSeq(hostport, 2, end),
                     port |-> Tail0(hostport, i + 1), err |-> FALSE]
       ELSE IF Contains(Head0(hostport, i), Colon) THEN bad
       ELSE IF Contains(hostport, <<"[">>) THEN bad
       ELSE IF Contains(hostport, <<"]">>) THEN bad
       ELSE [host |-> Head0(hostport, i),
             port |-> Tail0(hostport, i + 1), err |-> FALSE]

----------------------------------------------------------------------------
(* parseTarget *)

\* the four values parseTarget returns
Resolved(server, port, protocol) ==
    [server |-> server, port |-> port, protocol |-> protocol, err |-> FALSE]

ResolveError ==
    [server |-> Empty, port |-> 0, protocol |-> Empty, err |-> TRUE]

\* DefaultPort with the port of plain SMTP for smtp
DefaultPort_plainSmtp(protocol) ==
    CASE protocol = sHttps -> 443
      [] protocol = sSmtp -> 25
      [] protocol = sImap -> 143
      [] protocol = sPop3 -> 110
      [] OTHER -> 443

\* the switch that sets the default port of a scheme
DefaultPort(protocol) ==
    CASE protocol = sHttps -> 443
      [] protocol = sSmtp -> 587
      [] protocol = sImap -> 143
      [] protocol = sPop3 -> 110
      [] OTHER -> 443

\* host, portStr := net.SplitHostPort(x); port, err = strconv.Atoi(portStr)
HostAndPort(hostport, protocol) ==
    LET shp == SplitHostPort(hostport)
        n == Atoi(shp.port)
    IN IF shp.err THEN ResolveError
       ELSE IF n.err THEN ResolveError
       ELSE Resolved(shp.host, n.val, protocol)

parseTarget(t) ==
    IF Contains(t, SchemeSep)
    THEN LET sp == SplitN2(t, SchemeSep)
             protocol == ToLower(sp[1])
             idx == Index(sp[2], Slash)
             serverPart == IF idx # -1 THEN Head0(sp[2], idx) ELSE sp[2]
         IN IF Contains(serverPart, Colon)
            THEN HostAndPort(serverPart, protocol)
            ELSE Resolved(serverPart, DefaultPort(protocol), protocol)
    ELSE IF Contains(t, Colon)
    THEN HostAndPort(t, sHttps)
    ELSE Resolved(t, 443, sHttps)

----------------------------------------------------------------------------
(* The targets the model runs on *)

\* marks a piece the target does not have
Absent == <<"absent">>

Schemes == { sHttps, sTls, sSmtp, sImap, sPop3, sFtp, sSMTP, Empty }

Hosts == { hMail, hShort, hV6, Empty }

PortTexts ==
    { <<"0">>, <<"2", "5">>, <<"1", "1", "0">>, <<"1", "4", "3">>,
      <<"4", "4", "3">>, <<"5", "8", "7">>, <<"6", "5", "5", "3", "5">>,
      <<"6", "5", "5", "3", "6">>, <<"-", "1">>, <<"+", "2", "5">>,
      <<"x">>, sSmtp, Empty }

Paths == { Empty, Slash, <<"/", "p">> }

TargetParts ==
    [ scheme : Schemes \cup {Absent},
      host : Hosts,
      port : PortTexts \cup {Absent},
      path : Paths ]

\* the string a user types for these pieces
Assemble(p) ==
    (IF p.scheme = Absent THEN Empty ELSE p.scheme \o SchemeSep)
    \o p.host
    \o (IF p.port = Absent THEN Empty ELSE Colon \o p.port)
    \o p.path

----------------------------------------------------------------------------
(* Connections, the socket buffer and the peer *)

\* what no step of one invocation changes
fixed == <<parts, dir0, verbose, other, run, sc>>

\* what only the write phase changes
wr == <<certNo, filename, out>>

\* bound: the number of TCP segments one server reply may arrive in
MaxParts == 2

\* bound: the number of certificates a peer presents
MaxChain == 2

EhloCmd == "EHLO localhost\r\n"
HeloCmd == "HELO localhost\r\n"
QuitCmd == "QUIT\r\n"
SmtpStarttlsCmd == "STARTTLS\r\n"
ImapStarttlsCmd == "a001 STARTTLS\r\n"
Pop3StlsCmd == "STLS\r\n"

\* fmt.Sprintf("%s:%d", server, port), the address every dial is given
Addr(server, port) == server \o Colon \o Itoa(port)

\* a connection as net.Dial returns it; by names the function that dialled,
\* addr is the address dialled, sni the ServerName of the tls.Config the
\* function uses on it
NewConn(by) ==
    [by |-> by, addr |-> Addr(res.server, res.port), sni |-> res.server,
     log |-> <<>>, open |-> TRUE, tls |-> FALSE]

\* one operation on a socket; enc says whether it went through the TLS layer
ReadOp(ok, enc) == [op |-> "read", data |-> "", ok |-> ok, enc |-> enc]
WriteOp(data, ok, enc) == [op |-> "write", data |-> data, ok |-> ok, enc |-> enc]
HandshakeOp(ok) == [op |-> "handshake", data |-> "", ok |-> ok, enc |-> FALSE]
CloseOp == [op |-> "close", data |-> "", ok |-> TRUE, enc |-> FALSE]

cur == Len(conns)

Logged(cs, k, e) == [cs EXCEPT ![k].log = Append(@, e)]

\* conn.Close(): on a connection already closed it returns an error the
\* code ignores
Closed(cs, k) ==
    [cs EXCEPT ![k].log = Append(@, [CloseOp EXCEPT !.ok = cs[k].open]),
               ![k].open = FALSE]

\* the number of segments a peer sends where a reply is due; 0 is a peer
\* that stays silent
Segments == 0..MaxParts

\* the peer just accepted: its greeting of n segments is on the way.
\* deadline: whether conn.SetReadDeadline was called on the connection.
FreshNet(n, deadline) ==
    [fly |-> n, rx |-> 0, deadline |-> deadline, expired |-> FALSE,
     reset |-> FALSE, accept |-> FALSE]

NoNet == FreshNet(0, FALSE)

\* the peer answers a command it received with a reply of n segments
Reply(nt, n) == [nt EXCEPT !.fly = @ + n]

\* conn.Read(buffer) returns what has arrived, at most len(buffer) bytes
CanRead == net.rx > 0 /\ ~net.expired /\ ~net.reset
AfterRead(nt) == [nt EXCEPT !.rx = 0]

\* a failing Read: the read deadline passes, or the connection breaks
ReadFailures == (IF net.deadline THEN {"timeout"} ELSE {}) \cup {"reset"}
AfterFailure(nt, kind) ==
    IF kind = "timeout" THEN [nt EXCEPT !.expired = TRUE]
    ELSE [nt EXCEPT !.reset = TRUE]

\* conn.Write has no deadline: it fails only on a broken connection
CanWrite == ~net.reset

\* textproto's ReadResponse reads on until the reply is complete
CanReadResponse == net.fly = 0 /\ net.rx > 0 /\ ~net.reset

\* a segment on the way reaches the socket buffer
Deliver ==
    /\ cur > 0
    /\ conns[cur].open
    /\ net.fly > 0
    /\ ~net.reset
    /\ net' = [net EXCEPT !.fly = @ - 1, !.rx = @ + 1]
    /\ UNCHANGED <<fixed, wr, target, pc, res, stProto, conns, certs, err, fs>>

----------------------------------------------------------------------------
(* Certificates and the write phase *)

Letters ==
    { "a", "b", "c", "d", "e", "f", "g", "h", "i", "j", "k", "l", "m",
      "n", "o", "p", "q", "r", "s", "t", "u", "v", "w", "x", "y", "z",
      "A", "B", "C", "D", "E", "F", "G", "H", "I", "J", "K", "L", "M",
      "N", "O", "P", "Q", "R", "S", "T", "U", "V", "W", "X", "Y", "Z" }

\* the characters the pattern [^a-zA-Z0-9\-\._] does not match
KeptChars == Letters \cup Digits \cup {"-", ".", "_"}

\* re.ReplaceAllString(name, "_")
ReplaceInvalid(name) ==
    [ i \in 1..Len(name) |-> IF name[i] \in KeptChars THEN name[i] ELSE "_" ]

\* strings.TrimPrefix(s, prefix)
TrimPrefix(s, prefix) ==
    IF Len(s) >= Len(prefix) /\ SubSeq(s, 1, Len(prefix)) = prefix
    THEN Tail0(s, Len(prefix))
    ELSE s

sanitizeFilename(name) == TrimPrefix(ReplaceInvalid(name), <<"*", ".">>)

CrtSuffix == <<".", "c", "r", "t">>
BundleSuffix == <<"_", "b", "u", "n", "d", "l", "e", ".", "p", "e", "m">>
CertPrefix == <<"c", "e", "r", "t", "_">>

generateCertFilename(cert, index) ==
    IF cert.cn # Empty
    THEN sanitizeFilename(cert.cn) \o CrtSuffix
    ELSE IF Len(cert.dns) > 0
    THEN sanitizeFilename(cert.dns[1]) \o CrtSuffix
    ELSE CertPrefix \o Itoa(index) \o CrtSuffix

\* fmt.Sprintf("%s_bundle.pem", server)
BundleName(server) == server \o BundleSuffix

\* the alphabet of base64.StdEncoding
B64Alphabet ==
    << "A", "B", "C", "D", "E", "F", "G", "H", "I", "J", "K", "L", "M",
       "N", "O", "P", "Q", "R", "S", "T", "U", "V", "W", "X", "Y", "Z",
       "a", "b", "c", "d", "e", "f", "g", "h", "i", "j", "k", "l", "m",
       "n", "o", "p", "q", "r", "s", "t", "u", "v", "w", "x", "y", "z",
       "0", "1", "2", "3", "4", "5", "6", "7", "8", "9", "+", "/" >>

B64Char(v) == B64Alphabet[v + 1]

\* base64.StdEncoding on a byte string: three bytes give four characters,
\* a last group of one or two bytes is padded with "="
RECURSIVE Base64(_)
Base64(bytes) ==
    IF Len(bytes) = 0 THEN <<>>
    ELSE LET b1 == bytes[1]
             b2 == IF Len(bytes) >= 2 THEN bytes[2] ELSE 0
             b3 == IF Len(bytes) >= 3 THEN bytes[3] ELSE 0
             n == b1 * 65536 + b2 * 256 + b3
         IN << B64Char(n \div 262144),
               B64Char((n \div 4096) % 64),
               IF Len(bytes) >= 2 THEN B64Char((n \div 64) % 64) ELSE "=",
               IF Len(bytes) >= 3 THEN B64Char(n % 64) ELSE "=" >>
            \o (IF Len(bytes) > 3 THEN Base64(Tail0(bytes, 3)) ELSE <<>>)

\* a file is the sequence of its lines, each ended by "\n"
PemBegin == <<"-----BEGIN CERTIFICATE-----">>
PemEnd == <<"-----END CERTIFICATE-----">>

\* what pem.Encode writes for a block of type CERTIFICATE without headers
\* and with at most 48 bytes: the base64 text fits one line of 64
PemBlock(cert) == << PemBegin, Base64(cert.raw), PemEnd >>

\* the "\n" written between two blocks: an empty line
BlankLine == <<>>

\* BundleContent with the "\n" written after every block, the last too
RECURSIVE BundleContent_newlineAfterEach(_)
BundleContent_newlineAfterEach(chain) ==
    IF Len(chain) = 0 THEN <<>>
    ELSE PemBlock(chain[1]) \o <<BlankLine>>
         \o BundleContent_newlineAfterEach(Tail(chain))

\* the bytes createCertificateBundle writes into the file it created
RECURSIVE BundleContent(_)
BundleContent(chain) ==
    IF Len(chain) = 0 THEN <<>>
    ELSE IF Len(chain) = 1 THEN PemBlock(chain[1])
    ELSE PemBlock(chain[1]) \o <<BlankLine>> \o BundleContent(Tail(chain))

\* Create with a file that exists left as it is (no O_TRUNC)
Create_noTruncate(dir, name) ==
    IF name \in DOMAIN dir THEN dir ELSE (name :> <<>>) @@ dir

\* os.Create(name): the file exists and is empty, whatever it held
Create(dir, name) == (name :> <<>>) @@ dir

\* a write through a file opened by os.Create: the data goes to offset 0
\* of what the file holds at that time
WriteFile(dir, name, data) ==
    LET held == IF name \in DOMAIN dir THEN dir[name] ELSE <<>>
    IN (name :> (data \o SubSeq(held, Len(data) + 1, Len(held)))) @@ dir

\* Exists with os.Stat finding no file
Exists_never(dir, name) == FALSE

\* os.Stat(name) returns no error
Exists(dir, name) == name \in DOMAIN dir

\* the certificates of the peers the model talks to: raw is the DER
\* encoding, cn the subject's common name, dns the DNS names
CertWild == [raw |-> <<48, 1>>, cn |-> <<"*", ".", "h">>, dns |-> << <<"h">> >>]
CertDns == [raw |-> <<48, 2, 7>>, cn |-> Empty, dns |-> << <<"c", "a">> >>]
CertBare == [raw |-> <<48>>, cn |-> Empty, dns |-> <<>>]
\* a CA certificate that shares its name with another (a cross-signed one)
CertCross == [raw |-> <<48, 4, 255, 9>>, cn |-> <<"c", "a">>, dns |-> <<>>]

Certs == { CertWild, CertDns, CertBare, CertCross }

Chains == UNION { [1..n -> Certs] : n \in 0..MaxChain }

\* bound: the length of the names the naming rules are run on
MaxName == 3

\* bound: the longest chain the naming rules are run on
MaxIndex == 12

wExample ==
    <<"*", ".", "E", "x", "a", "m", "p", "l", "e", ".", "C", "o", "m">>
myCertTest == <<"M", "y", " ", "C", "e", "r", "t", "/", "T", "e", "s", "t">>

\* common names and DNS names: every short string of these characters,
\* and two longer ones
NameChars == {"*", ".", "a", "/"}
Names ==
    UNION { [1..n -> NameChars] : n \in 0..MaxName } \cup {wExample, myCertTest}

\* chains of one certificate of any name, with no DNS name, an empty one,
\* a wildcard or two; one long chain of certificates without a name; and
\* one of two certificates of the same name
NameChains ==
    { << [raw |-> <<48>>, cn |-> n, dns |-> d] >> :
        n \in Names,
        d \in { <<>>, <<Empty>>, << <<"*", ".", "h">> >>,
                << <<"c", "a">>, <<"x">> >> } }
    \cup { [i \in 1..MaxIndex |-> CertBare], <<CertDns, CertCross>> }

\* a working directory is empty, or holds an older file of a name the
\* run derives
OldFile == PemBlock([raw |-> <<48, 0>>])
InitialDirs == { <<>>, (<<"c", "a">> \o CrtSuffix) :> OldFile }

----------------------------------------------------------------------------
(* extractCertificates: resolution and dispatch *)

vars ==
    <<parts, target, pc, res, stProto, conns, net, certs, err, fs, dir0,
      verbose, certNo, filename, out, other, run, sc>>

\* no script runs
NoScript == [lang |-> "none", pc |-> "none"]

\* the targets of the full runs: every scheme of the dispatch, with and
\* without a port
RunParts ==
    [ scheme : { Absent, sHttps, sTls, sSmtp, sImap, sPop3, sFtp },
      host : { hShort },
      port : { Absent, <<"2", "5">>, <<"x">> },
      path : { Empty } ]

\* no second invocation runs
NoOther == [pc |-> "none", certs |-> <<>>, certNo |-> 0, filename |-> Empty]

\* the second invocations of the runs in pairs: each has got a chain and
\* is at the start of its createIndividualCertificates
Others ==
    { [pc |-> "ind_name", certs |-> c, certNo |-> 1, filename |-> Empty] :
        c \in Chains \ {<<>>} }

\* main exits with the usage text when config.Target is empty
Start(from, others) ==
    /\ parts \in from
    /\ target = Assemble(parts)
    /\ target # Empty
    /\ pc = "start"
    /\ res = ResolveError
    /\ stProto = ""
    /\ conns = <<>>
    /\ net = NoNet
    /\ certs = <<>>
    /\ err = ""
    /\ fs \in InitialDirs
    /\ dir0 = fs
    /\ verbose \in BOOLEAN
    /\ certNo = 0
    /\ filename = Empty
    /\ out = <<>>
    /\ other \in others
    /\ run = 1
    /\ sc = NoScript

Init == Start(RunParts, {NoOther})

InitParse == Start(TargetParts, {NoOther})

\* the targets of the runs in pairs: one that resolves, one that does not
PairParts ==
    [ scheme : { Absent }, host : { hShort }, port : { Absent, <<"x">> },
      path : { Empty } ]

InitPair == Start(PairParts, Others)

\* getTLSCertificates has returned a chain of NameChains for the target "h"
InitWrite ==
    /\ parts = [scheme |-> Absent, host |-> hShort, port |-> Absent,
                path |-> Empty]
    /\ target = Assemble(parts)
    /\ pc = "got"
    /\ res = parseTarget(target)
    /\ stProto = ""
    /\ conns = Closed([Logged(<<NewConn("tls")>>, 1, HandshakeOp(TRUE))
                          EXCEPT ![1].tls = TRUE], 1)
    /\ net = NoNet
    /\ certs \in NameChains
    /\ err = ""
    /\ fs = <<>>
    /\ dir0 = fs
    /\ verbose \in BOOLEAN
    /\ certNo = 0
    /\ filename = Empty
    /\ out = <<>>
    /\ other = NoOther
    /\ run = 1
    /\ sc = NoScript

\* targets whose host piece holds a "/", beside the plain host: with a
\* scheme the text after the "/" is a path, without one it stays in the
\* host
hDir == <<"d", "/", "h">>
hUp == <<".", ".", "/", "h">>
SlashParts ==
    [ scheme : { Absent, sHttps, sFtp },
      host : { hShort, hDir, hUp },
      port : { Absent, <<"2", "5">>, <<"x">> },
      path : { Empty, <<"/", "p">> } ]

InitSlash == Start(SlashParts, {NoOther})

\* a bundle file an earlier invocation left for a longer chain
OldBundle == BundleContent([i \in 1..(MaxChain + 1) |-> CertBare])

\* getTLSCertificates has returned a chain for the target "h", in a
\* directory that is empty, holds an older certificate, or holds an older
\* and longer bundle of the same host
InitTwice ==
    /\ parts = [scheme |-> Absent, host |-> hShort, port |-> Absent,
                path |-> Empty]
    /\ target = Assemble(parts)
    /\ pc = "got"
    /\ res = parseTarget(target)
    /\ stProto = ""
    /\ conns = Closed([Logged(<<NewConn("tls")>>, 1, HandshakeOp(TRUE))
                          EXCEPT ![1].tls = TRUE], 1)
    /\ net = NoNet
    /\ certs \in Chains \ {<<>>}
    /\ err = ""
    /\ fs \in InitialDirs \cup { BundleName(hShort) :> OldBundle }
    /\ dir0 = fs
    /\ verbose \in BOOLEAN
    /\ certNo = 0
    /\ filename = Empty
    /\ out = <<>>
    /\ other = NoOther
    /\ run = 1
    /\ sc = NoScript

\* Dispatch with the default branch going through the plaintext negotiation
Dispatch_otherStarttls(protocol) ==
    CASE protocol = sHttps \/ protocol = sTls -> "tls_dial"
      [] protocol = sSmtp -> "smtp_dial"
      [] protocol = sImap -> "st_dial"
      [] protocol = sPop3 -> "st_dial"
      [] OTHER -> "st_dial"

\* the switch on protocol: the first step of the function it calls
Dispatch(protocol) ==
    CASE protocol = sHttps \/ protocol = sTls -> "tls_dial"
      [] protocol = sSmtp -> "smtp_dial"
      [] protocol = sImap -> "st_dial"
      [] protocol = sPop3 -> "st_dial"
      [] OTHER -> "tls_dial"

\* the protocol literal getIMAPCertificates and getPOP3Certificates pass on
ProtoArg(protocol) ==
    CASE protocol = sImap -> "imap"
      [] protocol = sPop3 -> "pop3"
      [] OTHER -> ""

ResolveOk ==
    /\ pc = "start"
    /\ ~parseTarget(target).err
    /\ res' = parseTarget(target)
    /\ pc' = Dispatch(res'.protocol)
    /\ stProto' = ProtoArg(res'.protocol)
    /\ UNCHANGED <<fixed, wr, target, conns, net, certs, err, fs>>

ResolveFail ==
    /\ pc = "start"
    /\ parseTarget(target).err
    /\ res' = parseTarget(target)
    /\ pc' = "failed"
    /\ err' = "invalid target"
    /\ UNCHANGED <<fixed, wr, target, stProto, conns, net, certs, fs>>

\* extractCertificates returns the error of the function it called
GetFailed ==
    /\ pc' = "failed"
    /\ err' = "failed to get certificates"
    /\ UNCHANGED <<fixed, wr, target, res, stProto, certs, fs>>

----------------------------------------------------------------------------
(* getTLSCertificates *)

\* tls.DialWithDialer: the TCP connect fails
TlsDialFail ==
    /\ pc = "tls_dial"
    /\ GetFailed
    /\ UNCHANGED <<conns, net>>

\* tls.DialWithDialer: connected, the handshake fails (the peer breaks it
\* off, or the dialer's timeout passes) and the dialer closes
TlsHandshakeFail ==
    /\ pc = "tls_dial"
    /\ conns' = Closed(Logged(Append(conns, NewConn("tls")), cur + 1,
                              HandshakeOp(FALSE)), cur + 1)
    /\ \E kind \in {"timeout", "reset"} : net' = AfterFailure(NoNet, kind)
    /\ GetFailed

\* tls.DialWithDialer succeeds; the chain is read, the deferred Close runs
TlsDialOk ==
    /\ pc = "tls_dial"
    /\ \E chain \in Chains :
        /\ certs' = chain
        /\ conns' = Closed(
              [Logged(Append(conns, NewConn("tls")), cur + 1, HandshakeOp(TRUE))
                  EXCEPT ![cur + 1].tls = TRUE], cur + 1)
    /\ net' = NoNet
    /\ pc' = "got"
    /\ UNCHANGED <<fixed, wr, target, res, stProto, err, fs>>

----------------------------------------------------------------------------
(* getTLSCertificatesWithSTARTTLS *)

\* starttlsCmd with the IMAP command sent without its tag
starttlsCmd_untagged(protocol) ==
    CASE protocol = "smtp" -> SmtpStarttlsCmd
      [] protocol = "imap" -> SmtpStarttlsCmd
      [] protocol = "pop3" -> Pop3StlsCmd
      [] OTHER -> ""

\* the switch that picks the STARTTLS command; "" is the default branch
starttlsCmd(protocol) ==
    CASE protocol = "smtp" -> SmtpStarttlsCmd
      [] protocol = "imap" -> ImapStarttlsCmd
      [] protocol = "pop3" -> Pop3StlsCmd
      [] OTHER -> ""

\* AfterGreeting with the EHLO exchange run for pop3 too
AfterGreeting_ehloForPop3(protocol) ==
    CASE protocol = "smtp" -> "st_ehlo_w"
      [] protocol = "imap" -> "st_stls_w"
      [] protocol = "pop3" -> "st_ehlo_w"
      [] OTHER -> "failed"

\* where the switch goes after the greeting was read
AfterGreeting(protocol) ==
    CASE protocol = "smtp" -> "st_ehlo_w"
      [] protocol = "imap" -> "st_stls_w"
      [] protocol = "pop3" -> "st_stls_w"
      [] OTHER -> "failed"

\* the deferred calls of getSMTPCertificates, which run when its call of
\* getTLSCertificatesWithSTARTTLS has returned: client.Quit() writes on the
\* connection closed before the call, then conn.Close() closes it again
CallerDefers(cs) ==
    IF Len(cs) >= 1 /\ cs[1].by = "smtp"
    THEN Closed(Logged(cs, 1, WriteOp(QuitCmd, FALSE, TRUE)), 1)
    ELSE cs

\* return: the deferred conn.Close(), then the caller's deferred calls
StReturn(cs) == CallerDefers(Closed(cs, Len(cs)))

StDialFail ==
    /\ pc = "st_dial"
    /\ conns' = CallerDefers(conns)
    /\ GetFailed
    /\ UNCHANGED net

\* net.DialTimeout succeeds; conn.SetReadDeadline sets the one deadline
StDialOk ==
    /\ pc = "st_dial"
    /\ conns' = Append(conns, NewConn("starttls"))
    /\ \E n \in Segments : net' = FreshNet(n, TRUE)
    /\ pc' = "st_greet"
    /\ UNCHANGED <<fixed, wr, target, res, stProto, certs, err, fs>>

StGreetOk ==
    /\ pc = "st_greet"
    /\ CanRead
    /\ net' = AfterRead(net)
    /\ IF AfterGreeting(stProto) = "failed"
       THEN /\ conns' = StReturn(Logged(conns, cur, ReadOp(TRUE, FALSE)))
            /\ GetFailed
       ELSE /\ conns' = Logged(conns, cur, ReadOp(TRUE, FALSE))
            /\ pc' = AfterGreeting(stProto)
            /\ UNCHANGED <<fixed, wr, target, res, stProto, certs, err, fs>>

StGreetFail ==
    /\ pc = "st_greet"
    /\ \E kind \in ReadFailures : net' = AfterFailure(net, kind)
    /\ conns' = StReturn(Logged(conns, cur, ReadOp(FALSE, FALSE)))
    /\ GetFailed

\* conn.Write([]byte("EHLO localhost\r\n")): the result is dropped
StEhloWrite ==
    /\ pc = "st_ehlo_w"
    /\ \/ /\ CanWrite
          /\ conns' = Logged(conns, cur, WriteOp(EhloCmd, TRUE, FALSE))
          /\ \E n \in Segments : net' = Reply(net, n)
       \/ /\ conns' = Logged(conns, cur, WriteOp(EhloCmd, FALSE, FALSE))
          /\ net' = AfterFailure(net, "reset")
    /\ pc' = "st_ehlo_r"
    /\ UNCHANGED <<fixed, wr, target, res, stProto, certs, err, fs>>

\* conn.Read(buffer) // Read EHLO response: the result is dropped
StEhloRead ==
    /\ pc = "st_ehlo_r"
    /\ \/ /\ CanRead
          /\ conns' = Logged(conns, cur, ReadOp(TRUE, FALSE))
          /\ net' = AfterRead(net)
       \/ /\ conns' = Logged(conns, cur, ReadOp(FALSE, FALSE))
          /\ \E kind \in ReadFailures : net' = AfterFailure(net, kind)
    /\ pc' = "st_stls_w"
    /\ UNCHANGED <<fixed, wr, target, res, stProto, certs, err, fs>>

\* conn.Write([]byte(starttlsCmd)); the peer accepts or refuses the upgrade
StStarttlsWriteOk ==
    /\ pc = "st_stls_w"
    /\ CanWrite
    /\ conns' = Logged(conns, cur, WriteOp(starttlsCmd(stProto), TRUE, FALSE))
    /\ \E n \in Segments, a \in BOOLEAN :
          net' = [Reply(net, n) EXCEPT !.accept = a]
    /\ pc' = "st_stls_r"
    /\ UNCHANGED <<fixed, wr, target, res, stProto, certs, err, fs>>

StStarttlsWriteFail ==
    /\ pc = "st_stls_w"
    /\ net' = AfterFailure(net, "reset")
    /\ conns' = StReturn(Logged(conns, cur,
                                WriteOp(starttlsCmd(stProto), FALSE, FALSE)))
    /\ GetFailed

\* StStarttlsReadOk with a refused upgrade treated as an error
StStarttlsReadOk_checked ==
    /\ pc = "st_stls_r"
    /\ CanRead
    /\ net' = AfterRead(net)
    /\ IF net.accept
       THEN /\ conns' = Logged(conns, cur, ReadOp(TRUE, FALSE))
            /\ pc' = "st_hs"
            /\ UNCHANGED <<fixed, wr, target, res, stProto, certs, err, fs>>
       ELSE /\ conns' = StReturn(Logged(conns, cur, ReadOp(TRUE, FALSE)))
            /\ GetFailed

\* the response is read and dropped; tls.Client wraps the connection
StStarttlsReadOk ==
    /\ pc = "st_stls_r"
    /\ CanRead
    /\ conns' = Logged(conns, cur, ReadOp(TRUE, FALSE))
    /\ net' = AfterRead(net)
    /\ pc' = "st_hs"
    /\ UNCHANGED <<fixed, wr, target, res, stProto, certs, err, fs>>

StStarttlsReadFail ==
    /\ pc = "st_stls_r"
    /\ \E kind \in ReadFailures : net' = AfterFailure(net, kind)
    /\ conns' = StReturn(Logged(conns, cur, ReadOp(FALSE, FALSE)))
    /\ GetFailed

\* tlsConn.Handshake() succeeds only with a peer that accepted the upgrade
\* and whose next bytes are its half of the handshake
StHandshakeOk ==
    /\ pc = "st_hs"
    /\ net.accept
    /\ net.fly + net.rx = 0
    /\ ~net.reset
    /\ ~net.expired
    /\ \E chain \in Chains :
        /\ certs' = chain
        /\ conns' = StReturn([Logged(conns, cur, HandshakeOp(TRUE))
                                 EXCEPT ![cur].tls = TRUE])
    /\ pc' = "got"
    /\ UNCHANGED <<fixed, wr, target, res, stProto, net, err, fs>>

\* the handshake reads through conn, under the read deadline set on it
StHandshakeFail ==
    /\ pc = "st_hs"
    /\ \E kind \in ReadFailures : net' = AfterFailure(net, kind)
    /\ conns' = StReturn(Logged(conns, cur, HandshakeOp(FALSE)))
    /\ GetFailed

----------------------------------------------------------------------------
(* extractCertificates: the chain check and the write phase *)

\* NoCertificates with the empty chain passed on to the write phase
NoCertificates_passedOn ==
    /\ pc = "got"
    /\ Len(certs) = 0
    /\ pc' = "bundle"
    /\ UNCHANGED <<fixed, wr, target, res, stProto, conns, net, certs, err, fs>>

NoCertificates ==
    /\ pc = "got"
    /\ Len(certs) = 0
    /\ pc' = "failed"
    /\ err' = "no certificates found"
    /\ UNCHANGED <<fixed, wr, target, res, stProto, conns, net, certs, fs>>

HaveCertificates ==
    /\ pc = "got"
    /\ Len(certs) # 0
    /\ pc' = "bundle"
    /\ UNCHANGED <<fixed, wr, target, res, stProto, conns, net, certs, err, fs>>

\* a line on standard output: the fixed text and what is formatted into it
Line(text, arg) == [text |-> text, arg |-> arg]

\* createCertificateBundle, verbose: one line before each of the first n
\* blocks is encoded
AddingLines(n) ==
    IF verbose
    THEN [ i \in 1..n |-> Line("Adding certificate to bundle", certs[i].cn) ]
    ELSE <<>>

\* createCertificateBundle: os.Create fails, or pem.Encode fails at block k
\* and leaves the blocks before it, each followed by the "\n"
BundleFail ==
    /\ pc = "bundle"
    /\ \/ UNCHANGED <<fs, out>>
       \/ \E k \in 1..Len(certs) :
            /\ fs' = WriteFile(Create(fs, BundleName(res.server)),
                               BundleName(res.server),
                               BundleContent(SubSeq(certs, 1, k - 1))
                               \o (IF k > 1 THEN <<BlankLine>> ELSE <<>>))
            /\ out' = out \o AddingLines(k)
    /\ pc' = "failed"
    /\ err' = "failed to create bundle"
    /\ UNCHANGED <<fixed, certNo, filename, target, res, stProto, conns, net,
                   certs>>

\* createCertificateBundle: the file is created and every block written;
\* createIndividualCertificates is called
BundleOk ==
    /\ pc = "bundle"
    /\ fs' = WriteFile(Create(fs, BundleName(res.server)),
                       BundleName(res.server), BundleContent(certs))
    /\ out' = out \o AddingLines(Len(certs))
                  \o << Line("Created certificate bundle",
                             BundleName(res.server)),
                        Line("Bundle contains", Itoa(Len(certs))) >>
    /\ certNo' = 1
    /\ pc' = "ind_name"
    /\ UNCHANGED <<fixed, filename, target, res, stProto, conns, net, certs,
                   err>>

\* createIndividualCertificates: filename := generateCertFilename(cert, i+1)
IndividualName ==
    /\ pc = "ind_name"
    /\ certNo <= Len(certs)
    /\ filename' = generateCertFilename(certs[certNo], certNo)
    /\ pc' = "ind_stat"
    /\ UNCHANGED <<fixed, certNo, out, target, res, stProto, conns, net, certs,
                   err, fs>>

\* os.Stat(filename): a file that exists is skipped, with a line on
\* standard output when verbose
IndividualStat ==
    /\ pc = "ind_stat"
    /\ IF Exists(fs, filename)
       THEN /\ out' = IF verbose
                      THEN Append(out, Line("Individual cert already exists",
                                            filename))
                      ELSE out
            /\ certNo' = certNo + 1
            /\ pc' = "ind_name"
       ELSE /\ pc' = "ind_create"
            /\ UNCHANGED <<certNo, out>>
    /\ UNCHANGED <<fixed, filename, target, res, stProto, conns, net, certs,
                   err, fs>>

IndividualFailed ==
    /\ pc' = "failed"
    /\ err' = "failed to create individual certificates"
    /\ UNCHANGED <<fixed, wr, target, res, stProto, conns, net, certs>>

\* os.Create(filename)
IndividualCreateOk ==
    /\ pc = "ind_create"
    /\ fs' = Create(fs, filename)
    /\ pc' = "ind_encode"
    /\ UNCHANGED <<fixed, wr, target, res, stProto, conns, net, certs, err>>

IndividualCreateFail ==
    /\ pc = "ind_create"
    /\ IndividualFailed
    /\ UNCHANGED fs

\* pem.Encode(file, block), file.Close()
IndividualEncodeOk ==
    /\ pc = "ind_encode"
    /\ fs' = WriteFile(fs, filename, PemBlock(certs[certNo]))
    /\ out' = Append(out, Line("Saving individual cert", filename))
    /\ certNo' = certNo + 1
    /\ pc' = "ind_name"
    /\ UNCHANGED <<fixed, filename, target, res, stProto, conns, net, certs,
                   err>>

IndividualEncodeFail ==
    /\ pc = "ind_encode"
    /\ IndividualFailed
    /\ UNCHANGED fs

\* the loop of createIndividualCertificates has ended;
\* printUsageInstructions, return nil
IndividualDone ==
    /\ pc = "ind_name"
    /\ certNo > Len(certs)
    /\ out' = Append(out, Line("Usage with curl", BundleName(res.server)))
    /\ pc' = "done"
    /\ UNCHANGED <<fixed, certNo, filename, target, res, stProto, conns, net,
                   certs, err, fs>>

\* the program is invoked again for the same target in the directory the
\* first invocation left, and gets the same chain
Again ==
    /\ pc = "done"
    /\ run = 1
    /\ run' = 2
    /\ dir0' = fs
    /\ pc' = "got"
    /\ certNo' = 0
    /\ filename' = Empty
    /\ out' = <<>>
    /\ UNCHANGED <<parts, verbose, other, sc, target, res, stProto, conns,
                   net, certs, err, fs>>

----------------------------------------------------------------------------
(* createIndividualCertificates of a second invocation, of another target, *)
(* in the same working directory                                           *)

OtherKeep ==
    UNCHANGED <<parts, dir0, verbose, run, sc, wr, target, pc, res, stProto,
                conns, net, certs, err>>

OtherName ==
    /\ other.pc = "ind_name"
    /\ other.certNo <= Len(other.certs)
    /\ other' = [other EXCEPT
                    !.filename = generateCertFilename(other.certs[other.certNo],
                                                      other.certNo),
                    !.pc = "ind_stat"]
    /\ OtherKeep
    /\ UNCHANGED fs

OtherStat ==
    /\ other.pc = "ind_stat"
    /\ other' = IF Exists(fs, other.filename)
                THEN [other EXCEPT !.certNo = @ + 1, !.pc = "ind_name"]
                ELSE [other EXCEPT !.pc = "ind_create"]
    /\ OtherKeep
    /\ UNCHANGED fs

OtherCreate ==
    /\ other.pc = "ind_create"
    /\ fs' = Create(fs, other.filename)
    /\ other' = [other EXCEPT !.pc = "ind_encode"]
    /\ OtherKeep

OtherEncode ==
    /\ other.pc = "ind_encode"
    /\ fs' = WriteFile(fs, other.filename, PemBlock(other.certs[other.certNo]))
    /\ other' = [other EXCEPT !.certNo = @ + 1, !.pc = "ind_name"]
    /\ OtherKeep

OtherDone ==
    /\ other.pc = "ind_name"
    /\ other.certNo > Len(other.certs)
    /\ other' = [other EXCEPT !.pc = "done"]
    /\ OtherKeep
    /\ UNCHANGED fs

----------------------------------------------------------------------------
(* getSMTPCertificates: a session of net/smtp on a connection of its own, *)
(* then the call of getTLSCertificatesWithSTARTTLS.                       *)
(* smtp.NewClient reads the greeting; client.StartTLS sends EHLO (HELO    *)
(* when EHLO is refused), then STARTTLS, wraps the connection in TLS and   *)
(* sends EHLO again; client.Quit sends QUIT and closes.                    *)

Keep == UNCHANGED <<fixed, wr, target, res, stProto, certs, err, fs>>

\* the newest connection with a write or a read added to its operations
W(data, ok) == Logged(conns, cur, WriteOp(data, ok, conns[cur].tls))
R(ok) == Logged(conns, cur, ReadOp(ok, conns[cur].tls))

\* the command reached the peer, which replies
Sent == CanWrite /\ \E n \in Segments : net' = Reply(net, n)
\* the command did not: the connection is broken
Broke == net' = AfterFailure(net, "reset")
\* a whole reply was read
Got == CanReadResponse /\ net' = AfterRead(net)

SmtpDialFail ==
    /\ pc = "smtp_dial"
    /\ GetFailed
    /\ UNCHANGED <<conns, net>>

\* net.DialTimeout succeeds; no deadline is set on this connection
SmtpDialOk ==
    /\ pc = "smtp_dial"
    /\ conns' = Append(conns, NewConn("smtp"))
    /\ \E n \in Segments : net' = FreshNet(n, FALSE)
    /\ pc' = "smtp_new"
    /\ Keep

\* smtp.NewClient: the greeting is a 220 reply
SmtpNewClientOk ==
    /\ pc = "smtp_new"
    /\ Got
    /\ conns' = R(TRUE)
    /\ pc' = "smtp_ehlo_w"
    /\ Keep

\* smtp.NewClient: another reply, or none: text.Close(), then the
\* deferred conn.Close()
SmtpNewClientFail ==
    /\ pc = "smtp_new"
    /\ \/ Got /\ conns' = Closed(Closed(R(TRUE), cur), cur)
       \/ Broke /\ conns' = Closed(Closed(R(FALSE), cur), cur)
    /\ GetFailed

\* client.StartTLS, hello(): EHLO localhost
SmtpEhloWrite ==
    /\ pc = "smtp_ehlo_w"
    /\ \/ Sent /\ conns' = W(EhloCmd, TRUE) /\ pc' = "smtp_ehlo_r"
       \/ Broke /\ conns' = W(EhloCmd, FALSE) /\ pc' = "smtp_helo_w"
    /\ Keep

\* a 250 reply ends hello(); any error makes it fall back to HELO
SmtpEhloRead ==
    /\ pc = "smtp_ehlo_r"
    /\ \/ Got /\ conns' = R(TRUE) /\ pc' = "smtp_stls_w"
       \/ Got /\ conns' = R(TRUE) /\ pc' = "smtp_helo_w"
       \/ Broke /\ conns' = R(FALSE) /\ pc' = "smtp_helo_w"
    /\ Keep

\* hello(): HELO localhost
SmtpHeloWriteOk ==
    /\ pc = "smtp_helo_w"
    /\ Sent
    /\ conns' = W(HeloCmd, TRUE)
    /\ pc' = "smtp_helo_r"
    /\ Keep

\* StartTLS returns the error of hello(); the deferred client.Quit()
\* returns it too, without writing; the deferred conn.Close() runs
SmtpHeloWriteFail ==
    /\ pc = "smtp_helo_w"
    /\ Broke
    /\ conns' = Closed(W(HeloCmd, FALSE), cur)
    /\ GetFailed

SmtpHeloReadOk ==
    /\ pc = "smtp_helo_r"
    /\ Got
    /\ conns' = R(TRUE)
    /\ pc' = "smtp_stls_w"
    /\ Keep

SmtpHeloReadFail ==
    /\ pc = "smtp_helo_r"
    /\ \/ Got /\ conns' = Closed(R(TRUE), cur)
       \/ Broke /\ conns' = Closed(R(FALSE), cur)
    /\ GetFailed

\* StartTLS: the STARTTLS command; an error returns to the deferred Quit
SmtpStarttlsWrite ==
    /\ pc = "smtp_stls_w"
    /\ \/ Sent /\ conns' = W(SmtpStarttlsCmd, TRUE) /\ pc' = "smtp_stls_r"
       \/ Broke /\ conns' = W(SmtpStarttlsCmd, FALSE) /\ pc' = "smtp_dq_w"
    /\ Keep

\* a 220 reply lets StartTLS wrap the connection
SmtpStarttlsRead ==
    /\ pc = "smtp_stls_r"
    /\ \/ Got /\ conns' = R(TRUE) /\ pc' = "smtp_hs"
       \/ Got /\ conns' = R(TRUE) /\ pc' = "smtp_dq_w"
       \/ Broke /\ conns' = R(FALSE) /\ pc' = "smtp_dq_w"
    /\ Keep

\* StartTLS: c.ehlo() on the TLS client starts with the handshake
SmtpHandshake ==
    /\ pc = "smtp_hs"
    /\ \/ /\ ~net.reset
          /\ net.fly + net.rx = 0
          /\ conns' = [Logged(conns, cur, HandshakeOp(TRUE))
                          EXCEPT ![cur].tls = TRUE]
          /\ pc' = "smtp_ehlo2_w"
          /\ UNCHANGED net
       \/ /\ Broke
          /\ conns' = [Logged(conns, cur, HandshakeOp(FALSE))
                          EXCEPT ![cur].tls = TRUE]
          /\ pc' = "smtp_dq_w"
    /\ Keep

\* StartTLS: EHLO inside the TLS session
SmtpEhlo2Write ==
    /\ pc = "smtp_ehlo2_w"
    /\ \/ Sent /\ conns' = W(EhloCmd, TRUE) /\ pc' = "smtp_ehlo2_r"
       \/ Broke /\ conns' = W(EhloCmd, FALSE) /\ pc' = "smtp_dq_w"
    /\ Keep

SmtpEhlo2Read ==
    /\ pc = "smtp_ehlo2_r"
    /\ \/ Got /\ conns' = R(TRUE) /\ pc' = "smtp_q_w"
       \/ Got /\ conns' = R(TRUE) /\ pc' = "smtp_dq_w"
       \/ Broke /\ conns' = R(FALSE) /\ pc' = "smtp_dq_w"
    /\ Keep

\* StartTLS succeeded: client.Quit(), whose result is dropped, then
\* conn.Close(), then the call of getTLSCertificatesWithSTARTTLS
SmtpQuitWrite ==
    /\ pc = "smtp_q_w"
    /\ \/ Sent /\ conns' = W(QuitCmd, TRUE) /\ pc' = "smtp_q_r"
                /\ UNCHANGED stProto
       \/ Broke /\ conns' = Closed(W(QuitCmd, FALSE), cur) /\ pc' = "st_dial"
                /\ stProto' = "smtp"
    /\ UNCHANGED <<fixed, wr, target, res, certs, err, fs>>

\* a 221 reply makes Quit close the connection itself
SmtpQuitRead ==
    /\ pc = "smtp_q_r"
    /\ \/ Got /\ conns' = Closed(Closed(R(TRUE), cur), cur)
       \/ Got /\ conns' = Closed(R(TRUE), cur)
       \/ Broke /\ conns' = Closed(R(FALSE), cur)
    /\ pc' = "st_dial"
    /\ stProto' = "smtp"
    /\ UNCHANGED <<fixed, wr, target, res, certs, err, fs>>

\* StartTLS failed: the deferred client.Quit(), then the deferred
\* conn.Close()
SmtpDeferredQuitWriteOk ==
    /\ pc = "smtp_dq_w"
    /\ Sent
    /\ conns' = W(QuitCmd, TRUE)
    /\ pc' = "smtp_dq_r"
    /\ Keep

SmtpDeferredQuitWriteFail ==
    /\ pc = "smtp_dq_w"
    /\ Broke
    /\ conns' = Closed(W(QuitCmd, FALSE), cur)
    /\ GetFailed

SmtpDeferredQuitRead ==
    /\ pc = "smtp_dq_r"
    /\ \/ Got /\ conns' = Closed(Closed(R(TRUE), cur), cur)
       \/ Got /\ conns' = Closed(R(TRUE), cur)
       \/ Broke /\ conns' = Closed(R(FALSE), cur)
    /\ GetFailed

----------------------------------------------------------------------------
(* The scripts sslcerts.sh and sslcerts.ps1: the command line.             *)
(* Both take the target as first argument, derive the server and the port  *)
(* of "openssl s_client -showcerts -connect server:port" from it, and add  *)
(* "-starttls <protocol>" for the ports the switch names.                  *)

sXmpp == <<"x", "m", "p", "p">>
sImap3 == <<"i", "m", "a", "p", "3">>
sPop == <<"p", "o", "p">>
s443 == <<"4", "4", "3">>

\* both scripts: the if / elif chain on $port that enables -starttls
StarttlsOptions(port) ==
    IF port \in { sSmtp, sPop3, sImap, sFtp, sXmpp }
    THEN [port |-> port, opts |-> <<"-starttls", port>>]
    ELSE IF port = sImap3
    THEN [port |-> port, opts |-> <<"-starttls", sImap>>]
    ELSE IF port = sPop
    THEN [port |-> sPop3, opts |-> <<"-starttls", sPop3>>]
    ELSE [port |-> port, opts |-> <<>>]

\* sslcerts.sh: port="${1%%://*}", server="${1#*://}", server="${server%%/*}";
\* port="${1#*:}", server="${1%:*}"; server="$1", port=443
ShTarget(t) ==
    IF Contains(t, SchemeSep)
    THEN LET i == Index(t, SchemeSep)
             rest == Tail0(t, i + 3)
             j == Index(rest, Slash)
         IN [server |-> IF j # -1 THEN Head0(rest, j) ELSE rest,
             port |-> Head0(t, i)]
    ELSE IF Contains(t, Colon)
    THEN [server |-> Head0(t, LastIndex(t, ":")),
          port |-> Tail0(t, Index(t, Colon) + 1)]
    ELSE [server |-> t, port |-> s443]

\* System.Uri: the default port of a scheme it knows, -1 for any other
UriDefaultPort(scheme) ==
    CASE scheme = sHttps -> 443
      [] scheme = sFtp -> 21
      [] OTHER -> -1

\* the authority of scheme://host[:port][/path]
UriAuthority(t) ==
    LET rest == SplitN2(t, SchemeSep)[2]
        j == Index(rest, Slash)
    IN IF j # -1 THEN Head0(rest, j) ELSE rest

\* ([Uri]$Target).Port
UriPort(t) ==
    LET a == UriAuthority(t)
    IN IF Contains(a, Colon)
       THEN DecVal(Tail0(a, Index(a, Colon) + 1))
       ELSE UriDefaultPort(SplitN2(t, SchemeSep)[1])

\* ([Uri]$Target).Host
UriHost(t) ==
    LET a == UriAuthority(t)
    IN IF Contains(a, Colon) THEN Head0(a, Index(a, Colon)) ELSE a

\* sslcerts.ps1: $uri.Host and $uri.Port or $uri.Scheme; $Target.Split(":");
\* $Target and 443
PsTarget(t) ==
    IF Contains(t, SchemeSep)
    THEN [server |-> UriHost(t),
          port |-> IF UriPort(t) # -1 THEN Itoa(UriPort(t))
                   ELSE SplitN2(t, SchemeSep)[1]]
    ELSE IF Contains(t, Colon)
    THEN LET i == Index(t, Colon)
             rest == Tail0(t, i + 1)
             j == Index(rest, Colon)
         IN [server |-> Head0(t, i),
             port |-> IF j # -1 THEN Head0(rest, j) ELSE rest]
    ELSE [server |-> t, port |-> s443]

\* the targets the scripts are run on; System.Uri takes a port of digits
\* only, so a target with a scheme has such a port or none
ArgParts ==
    { p \in [ scheme : { Absent, sHttps, sSmtp, sImap, sPop3, sFtp },
              host : { hShort, hMail },
              port : { Absent, <<"2", "5">>, <<"1", "1", "0">>,
                       <<"1", "4", "3">>, s443, <<"5", "8", "7">>, sSmtp,
                       sPop },
              path : { Empty, Slash } ] :
        /\ p.scheme # Absent => p.port \notin { sSmtp, sPop }
        /\ p.scheme = Absent => p.path = Empty }

\* the Go program does not run
Idle ==
    /\ pc = "script"
    /\ res = ResolveError
    /\ stProto = ""
    /\ conns = <<>>
    /\ net = NoNet
    /\ err = ""
    /\ dir0 = fs
    /\ verbose = FALSE
    /\ certNo = 0
    /\ filename = Empty
    /\ out = <<>>
    /\ other = NoOther
    /\ run = 1

\* a script is started with a target as its first argument
InitArgs ==
    /\ parts \in ArgParts
    /\ target = Assemble(parts)
    /\ fs = <<>>
    /\ Idle
    /\ certs = <<>>
    /\ sc \in [ lang : {"sh", "ps1"}, pc : {"args"}, server : {Empty},
                port : {Empty}, opts : { <<>> } ]

\* what a step of a script leaves alone
ScriptKeep ==
    UNCHANGED <<parts, dir0, verbose, other, run, wr, target, pc, res,
                stProto, conns, net, certs, err>>

\* sslcerts.sh up to the call of openssl s_client
ShArgs ==
    /\ sc.lang = "sh"
    /\ sc.pc = "args"
    /\ LET t == ShTarget(target)
           o == StarttlsOptions(t.port)
       IN sc' = [sc EXCEPT !.server = t.server, !.port = o.port,
                           !.opts = o.opts, !.pc = "connect"]
    /\ ScriptKeep
    /\ UNCHANGED fs

\* sslcerts.ps1 up to the call of openssl s_client
PsArgs ==
    /\ sc.lang = "ps1"
    /\ sc.pc = "args"
    /\ LET t == PsTarget(target)
           o == StarttlsOptions(t.port)
       IN sc' = [sc EXCEPT !.server = t.server, !.port = o.port,
                           !.opts = o.opts, !.pc = "connect"]
    /\ ScriptKeep
    /\ UNCHANGED fs

NextArgs == ShArgs \/ PsArgs

\* the command lines the scripts build
SpecArgs == InitArgs /\ [][NextArgs]_vars

----------------------------------------------------------------------------
(* The scripts: the parser of the output of openssl s_client -showcerts.   *)
(* A line is the sequence of its characters; a shell string of several     *)
(* lines, and a file, is the sequence of its lines.                         *)

Dashes == <<"-", "-", "-", "-", "-">>
BeginLine ==
    Dashes \o <<"B", "E", "G", "I", "N", " ", "C", "E", "R", "T", "I", "F",
                "I", "C", "A", "T", "E">> \o Dashes
EndLine ==
    Dashes \o <<"E", "N", "D", " ", "C", "E", "R", "T", "I", "F", "I", "C",
                "A", "T", "E">> \o Dashes
ChainLine ==
    <<"C", "e", "r", "t", "i", "f", "i", "c", "a", "t", "e", " ", "c", "h",
      "a", "i", "n">>
RuleLine == <<"-", "-", "-">>
ServerCertLine ==
    <<"S", "e", "r", "v", "e", "r", " ", "c", "e", "r", "t", "i", "f", "i",
      "c", "a", "t", "e">>
ConnectedLine == <<"C", "O", "N", "N", "E", "C", "T", "E", "D">>
SlashCN == <<"/", "C", "N", "=">>

\* the certificates of the peers the scripts talk to
ScriptCerts ==
    { [cn |-> <<"c", "a">>, raw |-> <<48, 2, 7>>],
      [cn |-> hShort, raw |-> <<48, 1>>],
      [cn |-> <<"m", "y", " ", "c", "a">>, raw |-> <<48, 4, 255, 9>>],
      [cn |-> Empty, raw |-> <<48>>] }

ScriptChains == UNION { [1..n -> ScriptCerts] : n \in 0..MaxChain }

\* how openssl prints a name: the one-line form /CN=ca of older versions,
\* the form CN = ca of newer ones; an empty name prints as nothing
NameText(style, cn) ==
    IF cn = Empty THEN Empty
    ELSE IF style = "oneline" THEN SlashCN \o cn
    ELSE <<"C", "N", " ", "=", " ">> \o cn

\* the lines of certificate i (from 0) of the chain section
CertLines(style, i, cert) ==
    << <<" ">> \o Itoa(i) \o <<" ", "s", ":">> \o NameText(style, cert.cn),
       <<" ", " ", " ", "i", ":">> \o NameText(style, <<"r">>) >>
    \o (IF style = "oneline" THEN <<>>
        ELSE << <<" ", " ", " ", "a", ":", "P", "K", "E", "Y">> >>)
    \o << BeginLine, Base64(cert.raw), EndLine >>

RECURSIVE ChainLines(_, _, _)
ChainLines(style, i, chain) ==
    IF Len(chain) = 0 THEN <<>>
    ELSE CertLines(style, i, chain[1]) \o ChainLines(style, i + 1, Tail(chain))

\* what openssl s_client -showcerts prints for a chain: the chain section,
\* ended by "---", then the server certificate once more; with the style
\* "absent", an output that has no chain section
Output(style, chain) ==
    IF style = "absent" THEN << ConnectedLine, RuleLine, RuleLine >>
    ELSE << ConnectedLine, RuleLine, ChainLine >>
         \o ChainLines(style, 0, chain)
         \o << RuleLine, ServerCertLine >>
         \o (IF Len(chain) = 0 THEN <<>>
             ELSE << BeginLine, Base64(chain[1].raw), EndLine >>)
         \o << <<"s", "u", "b", "j", "e", "c", "t", "=">> >>

\* strings.HasPrefix, used for a regular expression without an end anchor
HasPrefix(s, prefix) ==
    Len(s) >= Len(prefix) /\ SubSeq(s, 1, Len(prefix)) = prefix

\* the number of leading characters of s that are in set
Span(s, set) ==
    LET ends == { n \in 0..Len(s) : \A i \in 1..n : s[i] \in set }
    IN CHOOSE n \in ends : \A m \in ends : m <= n

\* every c of s replaced by d
Subst(s, c, d) == [ i \in 1..Len(s) |-> IF s[i] = c THEN d ELSE s[i] ]

\* the pattern ^[A-Za-z0-9+/=]+$ of both scripts
IsBase64Line(s) ==
    Len(s) > 0 /\ \A i \in 1..Len(s) : s[i] \in Letters \cup Digits \cup {"+", "/", "="}

\* sslcerts.sh: the case patterns " "*" s:"* and " "*" i:"*
ShSummary(line, letter) ==
    /\ Len(line) > 0
    /\ line[1] = " "
    /\ Contains(Tail0(line, 1), <<" ", letter, ":">>)

\* sslcerts.sh: the name of the file of a certificate
ShCertFile(certname, count) ==
    IF Contains(certname, SlashCN)
    THEN LET a == Tail0(certname, Index(certname, SlashCN) + 4)
             j == Index(a, Slash)
             b == IF j # -1 THEN Head0(a, j) ELSE a
         IN Subst(b, " ", "_") \o CrtSuffix
    ELSE IF certname # Empty /\ certname # Slash
    THEN LET a == IF certname[1] = "/" THEN Tail0(certname, 1) ELSE certname
         IN Subst(Subst(a, "/", ":"), " ", "_") \o CrtSuffix
    ELSE CertPrefix \o Itoa(count) \o CrtSuffix

\* sslcerts.sh: the filter of the last case, "reading;"*
ShKeeps(line) ==
    HasPrefix(line, BeginLine) \/ HasPrefix(line, EndLine) \/ IsBase64Line(line)

\* ShEndsChain with the line tested for its first three characters only
ShEndsChain_prefix(line) == HasPrefix(line, RuleLine)

\* sslcerts.sh: the case "reading;---"
ShEndsChain(line) == line = RuleLine

\* both scripts: the end of a certificate. The lines of the certificate go
\* to the bundle, followed by an empty line, and to a file of their own
\* unless a file of that name exists
Saved(s, dir, cert, name) ==
    [ sc |-> [s EXCEPT !.bundle = @ \o cert \o <<Empty>>,
                       !.count = @ + 1,
                       !.cur = <<>>,
                       !.certname = Empty],
      fs |-> IF Exists(dir, name) THEN dir ELSE (name :> cert) @@ dir ]

\* sslcerts.sh: one pass of the while loop, on line sc.input[sc.pos]
ShLine ==
    /\ sc.lang = "sh"
    /\ sc.pc = "loop"
    /\ sc.pos <= Len(sc.input)
    /\ LET line == sc.input[sc.pos]
           s == [sc EXCEPT !.pos = @ + 1]
           reading == sc.state = "reading"
       IN IF sc.state = "begin" /\ line = ChainLine
          THEN /\ sc' = [s EXCEPT !.state = "reading", !.cur = <<>>,
                                  !.certname = Empty]
               /\ UNCHANGED fs
          ELSE IF reading /\ line = EndLine
          THEN LET r == Saved(s, fs, Append(sc.cur, line),
                              ShCertFile(sc.certname, sc.count + 1))
               IN sc' = r.sc /\ fs' = r.fs
          ELSE IF reading /\ ShSummary(line, "s")
          THEN /\ sc' = [s EXCEPT
                           !.certname = Tail0(line, Index(line, Colon) + 1)]
               /\ UNCHANGED fs
          ELSE IF reading /\ ShSummary(line, "i")
          THEN sc' = s /\ UNCHANGED fs
          ELSE IF reading /\ ShEndsChain(line)
          THEN sc' = [s EXCEPT !.pc = "save"] /\ UNCHANGED fs
          ELSE IF reading /\ ShKeeps(line)
          THEN sc' = [s EXCEPT !.cur = Append(@, line)] /\ UNCHANGED fs
          ELSE sc' = s /\ UNCHANGED fs
    /\ ScriptKeep

\* both scripts: the loop has read the last line
EndOfOutput ==
    /\ sc.pc = "loop"
    /\ sc.pos > Len(sc.input)
    /\ sc' = [sc EXCEPT !.pc = "save"]
    /\ ScriptKeep
    /\ UNCHANGED fs

\* sslcerts.sh: echo "$bundle_content" > "$bundle_file", or exit 1
ShSave ==
    /\ sc.lang = "sh"
    /\ sc.pc = "save"
    /\ IF sc.bundle # <<>>
       THEN /\ fs' = (BundleName(sc.server) :> sc.bundle) @@ fs
            /\ sc' = [sc EXCEPT !.pc = "exit", !.status = 0]
       ELSE /\ sc' = [sc EXCEPT !.pc = "exit", !.status = 1]
            /\ UNCHANGED fs
    /\ ScriptKeep

\* sslcerts.ps1: the pattern \s*\d+\s+<letter>:(.+) at the start of a
\* line; the result is what (.+) matched, or NoMatch
NoMatch == <<"no match">>
PsSummary(line, letter) ==
    LET a == Tail0(line, Span(line, {" "}))
        d == Span(a, Digits)
        b == Tail0(a, d)
        w == Span(b, {" "})
        c == Tail0(b, w)
    IN IF d >= 1 /\ w >= 1 /\ Len(c) >= 3 /\ c[1] = letter /\ c[2] = ":"
       THEN Tail0(c, 2)
       ELSE NoMatch

\* sslcerts.ps1: the name of the file of a certificate
PsCertFile(certName, count) ==
    LET hits == { i \in 0..(Len(certName) - 5) :
                    /\ SubSeq(certName, i + 1, i + 4) = SlashCN
                    /\ certName[i + 5] # "/" }
    IN IF hits # {}
       THEN LET i == CHOOSE h \in hits : \A g \in hits : h <= g
                a == Tail0(certName, i + 4)
                j == Index(a, Slash)
            IN ReplaceInvalid(IF j # -1 THEN Head0(a, j) ELSE a) \o CrtSuffix
       ELSE IF certName # Empty /\ certName # Slash
       THEN LET a == Tail0(certName, Span(certName, {"/"}))
            IN Subst(Subst(Subst(a, "/", "_"), ":", "_"), " ", "_")
               \o CrtSuffix
       ELSE CertPrefix \o Itoa(count) \o CrtSuffix

\* sslcerts.ps1: the filter of the last clause, on $certLine
PsKeeps(certLine) ==
    certLine = BeginLine \/ certLine = EndLine \/ IsBase64Line(certLine)

\* sslcerts.ps1: one pass of the foreach loop; the clauses of the switch
\* are tried in their order and each ends with break
PsLine ==
    /\ sc.lang = "ps1"
    /\ sc.pc = "loop"
    /\ sc.pos <= Len(sc.input)
    /\ LET line == sc.input[sc.pos]
           s == [sc EXCEPT !.pos = @ + 1]
           reading == sc.state = "reading"
       IN IF sc.state = "begin" /\ HasPrefix(line, ChainLine)
          THEN /\ sc' = [s EXCEPT !.state = "reading", !.cur = <<>>,
                                  !.certname = Empty]
               /\ UNCHANGED fs
          ELSE IF reading /\ HasPrefix(line, EndLine)
          THEN LET r == Saved(s, fs, Append(sc.cur, line),
                              PsCertFile(sc.certname, sc.count + 1))
               IN sc' = r.sc /\ fs' = r.fs
          ELSE IF reading /\ PsSummary(line, "s") # NoMatch
          THEN /\ sc' = [s EXCEPT !.certname = PsSummary(line, "s")]
               /\ UNCHANGED fs
          ELSE IF reading /\ PsSummary(line, "i") # NoMatch
          THEN sc' = s /\ UNCHANGED fs
          ELSE IF reading /\ HasPrefix(line, RuleLine)
          THEN /\ sc' = [sc EXCEPT !.state = "done", !.pc = "save"]
               /\ UNCHANGED fs
          ELSE IF reading
          THEN \* $line.Substring(8) throws on a shorter line, and
               \* $certLine keeps the value it had
               LET certLine == IF Len(line) >= 8 THEN Tail0(line, 8)
                               ELSE sc.certLine
               IN /\ sc' = [s EXCEPT
                              !.certLine = certLine,
                              !.cur = IF PsKeeps(certLine)
                                      THEN Append(@, certLine) ELSE @]
                  /\ UNCHANGED fs
          ELSE sc' = s /\ UNCHANGED fs
    /\ ScriptKeep

\* sslcerts.ps1: the bundle without its last empty line goes to the file,
\* or exit 1
PsSave ==
    /\ sc.lang = "ps1"
    /\ sc.pc = "save"
    /\ IF Len(sc.bundle) > 0
       THEN /\ fs' = (BundleName(sc.server) :>
                         IF sc.bundle[Len(sc.bundle)] = Empty
                         THEN Head0(sc.bundle, Len(sc.bundle) - 1)
                         ELSE sc.bundle) @@ fs
            /\ sc' = [sc EXCEPT !.pc = "exit", !.status = 0]
       ELSE /\ sc' = [sc EXCEPT !.pc = "exit", !.status = 1]
            /\ UNCHANGED fs
    /\ ScriptKeep

\* an older file of a name the scripts derive
OldCrt == << BeginLine, Base64(<<48, 0>>), EndLine >>

\* openssl s_client has ended with status 0 and the script has its output;
\* the working directory is empty or holds an older ca.crt
InitScript ==
    /\ parts = [scheme |-> Absent, host |-> hShort, port |-> Absent,
                path |-> Empty]
    /\ target = Assemble(parts)
    /\ fs \in { <<>>, (<<"c", "a">> \o CrtSuffix) :> OldCrt }
    /\ Idle
    /\ certs \in ScriptChains
    /\ \E lang \in {"sh", "ps1"},
          style \in {"oneline", "spaced"}
                    \cup (IF certs = <<>> THEN {"absent"} ELSE {}) :
          sc = [ lang |-> lang, pc |-> "loop", server |-> hShort,
                 port |-> s443, opts |-> <<>>, style |-> style,
                 input |-> Output(style, certs), pos |-> 1,
                 state |-> "begin", cur |-> <<>>, certname |-> Empty,
                 certLine |-> Empty, bundle |-> <<>>, count |-> 0,
                 status |-> -1 ]

NextScript == ShLine \/ PsLine \/ EndOfOutput \/ ShSave \/ PsSave

\* the parsers of the two scripts on the output of openssl
SpecScript == InitScript /\ [][NextScript]_vars

----------------------------------------------------------------------------
(* The program *)

NextParse == ResolveOk \/ ResolveFail

Next ==
    \/ ResolveOk \/ ResolveFail
    \/ Deliver
    \/ TlsDialFail \/ TlsHandshakeFail \/ TlsDialOk
    \/ SmtpDialFail \/ SmtpDialOk
    \/ SmtpNewClientOk \/ SmtpNewClientFail
    \/ SmtpEhloWrite \/ SmtpEhloRead
    \/ SmtpHeloWriteOk \/ SmtpHeloWriteFail
    \/ SmtpHeloReadOk \/ SmtpHeloReadFail
    \/ SmtpStarttlsWrite \/ SmtpStarttlsRead
    \/ SmtpHandshake
    \/ SmtpEhlo2Write \/ SmtpEhlo2Read
    \/ SmtpQuitWrite \/ SmtpQuitRead
    \/ SmtpDeferredQuitWriteOk \/ SmtpDeferredQuitWriteFail
    \/ SmtpDeferredQuitRead
    \/ StDialFail \/ StDialOk
    \/ StGreetOk \/ StGreetFail
    \/ StEhloWrite \/ StEhloRead
    \/ StStarttlsWriteOk \/ StStarttlsWriteFail
    \/ StStarttlsReadOk \/ StStarttlsReadFail
    \/ StHandshakeOk \/ StHandshakeFail
    \/ NoCertificates \/ HaveCertificates
    \/ BundleFail \/ BundleOk
    \/ IndividualName \/ IndividualStat
    \/ IndividualCreateOk \/ IndividualCreateFail
    \/ IndividualEncodeOk \/ IndividualEncodeFail
    \/ IndividualDone

\* a run over TLS beside the write phase of a second invocation
NextPair ==
    \/ ResolveOk \/ ResolveFail
    \/ TlsDialFail \/ TlsHandshakeFail \/ TlsDialOk
    \/ NoCertificates \/ HaveCertificates
    \/ BundleFail \/ BundleOk
    \/ IndividualName \/ IndividualStat
    \/ IndividualCreateOk \/ IndividualCreateFail
    \/ IndividualEncodeOk \/ IndividualEncodeFail
    \/ IndividualDone
    \/ OtherName \/ OtherStat \/ OtherCreate \/ OtherEncode \/ OtherDone

\* the write phase without a failing file operation
NextWrite ==
    \/ HaveCertificates
    \/ BundleOk
    \/ IndividualName \/ IndividualStat
    \/ IndividualCreateOk
    \/ IndividualEncodeOk
    \/ IndividualDone

\* the write phase without a failing file operation, run twice
NextTwice == NextWrite \/ Again

\* a run over direct TLS without a failing file operation
NextSlash ==
    \/ ResolveOk \/ ResolveFail
    \/ TlsDialFail \/ TlsHandshakeFail \/ TlsDialOk
    \/ NoCertificates \/ HaveCertificates
    \/ BundleOk
    \/ IndividualName \/ IndividualStat
    \/ IndividualCreateOk
    \/ IndividualEncodeOk
    \/ IndividualDone

\* the runs of extractCertificates
Spec == Init /\ [][Next]_vars

\* the write phase on chains of many names
SpecWrite == InitWrite /\ [][NextWrite]_vars

\* the write phase of an invocation and of its repetition
SpecTwice == InitTwice /\ [][NextTwice]_vars

\* the runs for targets with a "/" in them
SpecSlash == InitSlash /\ [][NextSlash]_vars

\* two invocations in one working directory
SpecPair == InitPair /\ [][NextPair]_vars

\* parseTarget on every assembled target
SpecParse == InitParse /\ [][NextParse]_vars

\* a step that follows target resolution and that the program takes
\* whatever the peer does from now on: every step but one in which the
\* connection breaks. A dial ends within its timeout, a read returns when
\* bytes have arrived or when a deadline set on the connection passes, a
\* write of a short command returns, a segment on the way arrives, a file
\* operation returns.
Timely == pc # "start" /\ Next /\ (net'.reset => net.reset)

\* the runs in which no timely step is put off for ever
SpecLive == Init /\ [][Next]_vars /\ WF_vars(Timely)

----------------------------------------------------------------------------
(* Properties of target resolution, stated for SpecParse *)

\* parseTarget has returned
Returned == pc # "start"

\* parseTarget has returned without error
ResolvedOk == pc # "start" /\ ~res.err

BadPortTexts ==
    { <<"0">>, <<"6", "5", "5", "3", "6">>, <<"-", "1">>, <<"x">>, sSmtp,
      Empty }

\* C2: a target with an explicit port (here after a well-formed host)
\* resolves only when the port text is an integer in 1..65535; any other
\* port text is a resolution error.
C2_PortInRange ==
    (Returned /\ parts.port # Absent /\ parts.host \in {hMail, hShort}
        /\ parts.scheme # Empty)
    => /\ parts.port \in BadPortTexts => res.err
       /\ ~res.err => res.port \in 1..65535

\* C3: a target whose host part is empty (here with a named scheme or
\* none, and port 443 or none) is a resolution error, so a resolved target
\* has a non-empty host.
C3_HostNonEmpty ==
    (parts.scheme # Empty /\ parts.port \in {Absent, <<"4", "4", "3">>}
        /\ (parts.scheme = Absent => parts.path = Empty))
    => /\ (Returned /\ parts.host = Empty) => res.err
       /\ ResolvedOk => res.server # Empty

\* the number a port text of the model stands for
PortNumber(text) ==
    CASE text = <<"2", "5">> -> 25
      [] text = <<"1", "1", "0">> -> 110
      [] text = <<"1", "4", "3">> -> 143
      [] text = <<"4", "4", "3">> -> 443
      [] text = <<"5", "8", "7">> -> 587
      [] text = <<"6", "5", "5", "3", "5">> -> 65535

\* the protocol a port is the STARTTLS alias of, https for a port that is
\* none (the README: SMTP on 25 and 587, POP3 on 110, IMAP on 143)
AliasScheme(port) ==
    CASE port \in {25, 587} -> sSmtp
      [] port = 110 -> sPop3
      [] port = 143 -> sImap
      [] OTHER -> sHttps

\* C4: a valid target host:port resolves to that host and port, with the
\* scheme https unless the port is a STARTTLS alias, and then with the
\* STARTTLS protocol of the port.
C4_HostPortScheme ==
    (Returned /\ parts.scheme = Absent /\ parts.path = Empty
        /\ parts.host \in {hMail, hShort}
        /\ parts.port \in { <<"2", "5">>, <<"1", "1", "0">>, <<"1", "4", "3">>,
                            <<"4", "4", "3">>, <<"5", "8", "7">>,
                            <<"6", "5", "5", "3", "5">> })
    => /\ ~res.err
       /\ res.server = parts.host
       /\ res.port = PortNumber(parts.port)
       /\ res.protocol = AliasScheme(PortNumber(parts.port))

----------------------------------------------------------------------------
(* Properties of the network sessions, stated for Spec *)

IsPrefix(s, t) == Len(s) <= Len(t) /\ SubSeq(t, 1, Len(s)) = s

\* what a connection's operations were, without their outcome and
\* without the closes
Script(log) ==
    LET kept == SelectSeq(log, LAMBDA e : e.op # "close")
    IN [ i \in 1..Len(kept) |-> <<kept[i].op, kept[i].data>> ]

Handshakes(k) ==
    { i \in 1..Len(conns[k].log) : conns[k].log[i].op = "handshake" }

\* C5: an invocation opens at most one TCP connection and performs at most
\* one TLS handshake.
C5_OneConnection ==
    /\ Len(conns) <= 1
    /\ \A k \in 1..Len(conns) : Cardinality(Handshakes(k)) <= 1

SmtpScript ==
    << <<"read", "">>, <<"write", EhloCmd>>, <<"read", "">>,
       <<"write", SmtpStarttlsCmd>>, <<"read", "">> >>

\* C6: for scheme smtp, on a connection on which a TLS handshake starts
\* the operations before it are exactly: read, write EHLO localhost, read,
\* write STARTTLS, read.
C6_SmtpScript ==
    (Returned /\ res.protocol = sSmtp)
    => \A k \in 1..Len(conns) : \A i \in Handshakes(k) :
          Script(SubSeq(conns[k].log, 1, i - 1)) = SmtpScript

\* C7 as stated: for scheme imap the first operation on the connection is
\* the write of the tagged STARTTLS command, with no read before it.
C7_ImapWriteFirst ==
    stProto = "imap"
    => \A k \in 1..Len(conns) :
          Len(conns[k].log) > 0
          => /\ conns[k].log[1].op = "write"
             /\ conns[k].log[1].data = ImapStarttlsCmd

ImapScript ==
    << <<"read", "">>, <<"write", ImapStarttlsCmd>>, <<"read", "">>,
       <<"handshake", "">> >>

\* C7 as amended: for scheme imap the operations on the connection are, in
\* this order: read the greeting, write "a001 STARTTLS\r\n", read one
\* response, start TLS; each step runs only after the ones before it
\* succeeded.
C7_ImapScript ==
    stProto = "imap"
    => \A k \in 1..Len(conns) :
          /\ IsPrefix(Script(conns[k].log), ImapScript)
          /\ \A i \in 1..Len(conns[k].log) : \A j \in 1..(i - 1) :
                conns[k].log[i].op # "close" => conns[k].log[j].ok

\* an imap session has reached a successful handshake
C7_Witness ==
    /\ stProto = "imap"
    /\ cur = 1
    /\ Len(conns[1].log) >= 4
    /\ conns[1].log[4] = HandshakeOp(TRUE)

Pop3Script ==
    << <<"read", "">>, <<"write", Pop3StlsCmd>>, <<"read", "">>,
       <<"handshake", "">> >>

\* C8: for scheme pop3 the only plaintext write is "STLS\r\n", written at
\* most once, after exactly one successful read of the greeting, and the
\* TLS handshake starts only after that write and one more read.
C8_Pop3Script ==
    stProto = "pop3"
    => \A k \in 1..Len(conns) :
          /\ IsPrefix(Script(conns[k].log), Pop3Script)
          /\ \A i \in 1..Len(conns[k].log) : \A j \in 1..(i - 1) :
                conns[k].log[i].op # "close" => conns[k].log[j].ok

\* a pop3 session has written STLS and reached a successful handshake
C8_Witness ==
    /\ stProto = "pop3"
    /\ cur = 1
    /\ Len(conns[1].log) >= 4
    /\ conns[1].log[2] = WriteOp(Pop3StlsCmd, TRUE, FALSE)
    /\ conns[1].log[4] = HandshakeOp(TRUE)

\* C9: when a read or a write of the STARTTLS negotiation fails, nothing
\* but the close of the connection follows it: no later step runs, no
\* handshake starts, the step is not retried, and no file is written.
C9_AbortOnFailure ==
    \A k \in 1..Len(conns) :
        conns[k].by = "starttls"
        => \A i \in 1..Len(conns[k].log) :
              (conns[k].log[i].op \in {"read", "write"} /\ ~conns[k].log[i].ok)
              => /\ \A j \in (i + 1)..Len(conns[k].log) :
                       conns[k].log[j].op = "close"
                 /\ pc \notin {"got", "bundle", "ind_name", "ind_stat",
                              "ind_create", "ind_encode", "done"}

\* C10: when the negotiation has ended without error with a peer that
\* accepted the upgrade, and the handshake is about to start, no plaintext
\* the peer sent is left unread, in the socket buffer or on the way.
C10_PlaintextConsumed ==
    (pc = "st_hs" /\ net.accept) => net.fly + net.rx = 0

----------------------------------------------------------------------------
(* Termination, stated for SpecLive *)

\* extractCertificates has returned
Terminated == pc \in {"failed", "done"}

\* C11: every blocking network operation is bounded by the timeout, so for
\* every scheme and every peer, a peer that accepts the connection and
\* never sends a byte included, the invocation, once its target is
\* resolved, eventually terminates.
C11_Terminates == Returned ~> Terminated

\* the same for every scheme but smtp
C11_TerminatesUnlessSmtp ==
    (Returned /\ res.protocol # sSmtp) ~> Terminated

----------------------------------------------------------------------------
(* Properties of the chain check and the write phase, stated for Spec *)

\* the function called for the chain has returned one: the handshake on
\* its connection succeeded
GotChain ==
    /\ cur >= 1
    /\ conns[cur].by \in {"tls", "starttls"}
    /\ \E i \in 1..Len(conns[cur].log) : conns[cur].log[i] = HandshakeOp(TRUE)

\* the positions of createCertificateBundle and createIndividualCertificates
WritePcs == {"bundle", "ind_name", "ind_stat", "ind_create", "ind_encode"}

\* C12: when the handshake stage returns an empty chain, the run ends with
\* the error "no certificates found" and no file is created or modified;
\* the write phase never runs on an empty chain.
C12_EmptyChainNoFiles ==
    /\ (GotChain /\ Len(certs) = 0)
       => /\ fs = dir0
          /\ pc \in {"got", "failed"}
          /\ pc = "failed" => err = "no certificates found"
    /\ pc \in WritePcs \cup {"done"} => Len(certs) >= 1

\* an imap run has ended on an empty chain
C12_Witness ==
    /\ pc = "failed"
    /\ err = "no certificates found"
    /\ GotChain
    /\ stProto = "imap"
    /\ certs = <<>>

\* the value of a character of the base64 alphabet
B64Index(c) == CHOOSE v \in 0..63 : B64Alphabet[v + 1] = c

\* the bytes a line of base64 text stands for
RECURSIVE Base64Decode(_)
Base64Decode(cs) ==
    IF Len(cs) < 4 THEN <<>>
    ELSE LET v(i) == IF cs[i] = "=" THEN 0 ELSE B64Index(cs[i])
             n == v(1) * 262144 + v(2) * 4096 + v(3) * 64 + v(4)
             b == << n \div 65536, (n \div 256) % 256, n % 256 >>
             keep == IF cs[3] = "=" THEN 1 ELSE IF cs[4] = "=" THEN 2 ELSE 3
         IN SubSeq(b, 1, keep) \o Base64Decode(Tail0(cs, 4))

\* createCertificateBundle has returned nil in this run
BundleWritten ==
    \/ pc \in (WritePcs \ {"bundle"}) \cup {"done"}
    \/ pc = "failed" /\ err = "failed to create individual certificates"

\* C13: after createCertificateBundle succeeds on a chain of N >= 1
\* certificates, <host>_bundle.pem holds exactly N PEM CERTIFICATE blocks,
\* block i encoding the DER bytes of certificate i of the chain, with one
\* empty line between two blocks and nothing after the last.
C13_BundleBlocks ==
    BundleWritten
    => LET file == fs[res.server \o BundleSuffix]
           N == Len(certs)
       IN /\ N >= 1
          /\ Len(file) = 4 * N - 1
          /\ \A i \in 1..N :
                /\ file[4 * i - 3] = <<"-----BEGIN CERTIFICATE-----">>
                /\ Base64Decode(file[4 * i - 2]) = certs[i].raw
                /\ file[4 * i - 1] = <<"-----END CERTIFICATE-----">>
          /\ \A i \in 1..(N - 1) : file[4 * i] = <<>>

\* a run has written the bundle of a chain of two different certificates
C13_Witness ==
    /\ pc = "done"
    /\ Len(certs) = 2
    /\ certs[1] = CertWild
    /\ certs[2] = CertCross
    /\ Len(fs[res.server \o BundleSuffix]) = 7

\* the name of the file of certificate k of the chain
NameOf(k) == generateCertFilename(certs[k], k)

\* C14: a successful run on a chain of N different certificates creates
\* N individual files minus one for each certificate whose derived name
\* existed before the run; with no such file it creates N, one holding
\* each certificate.
C14_IndividualCount ==
    (pc = "done" /\ \A i, j \in 1..Len(certs) : i # j => certs[i] # certs[j])
    => LET made == (DOMAIN fs \ DOMAIN dir0) \ {res.server \o BundleSuffix}
           met == { k \in 1..Len(certs) : NameOf(k) \in DOMAIN dir0 }
       IN /\ Cardinality(made) = Len(certs) - Cardinality(met)
          /\ met = {}
             => \A k \in 1..Len(certs) :
                   /\ NameOf(k) \in DOMAIN fs
                   /\ Len(fs[NameOf(k)]) = 3
                   /\ Base64Decode(fs[NameOf(k)][2]) = certs[k].raw

\* C15: when a file of a certificate's derived name exists as the write
\* phase reaches the certificate, the file is left as it is, the loop goes
\* on with the next certificate without an error, and the bundle file
\* holds the whole chain; a file that existed before the run, and a file
\* that holds a certificate, is never changed.
C15_CollisionSkipped ==
    /\ [](\A n \in DOMAIN dir0 : n \in DOMAIN fs /\ fs[n] = dir0[n])
    /\ [][ /\ (pc = "ind_stat" /\ filename \in DOMAIN fs)
              => /\ fs' = fs
                 /\ fs[res.server \o BundleSuffix] = BundleContent(certs)
                 /\ certNo' = certNo + 1
                 /\ pc' = "ind_name"
                 /\ err' = ""
           /\ \A n \in DOMAIN fs :
                 (n # res.server \o BundleSuffix /\ fs[n] # <<>>)
                 => n \in DOMAIN fs' /\ fs'[n] = fs[n] ]_vars

\* a run has skipped the file that existed, written the file of the next
\* certificate, and returned nil
C15_Witness ==
    /\ pc = "done"
    /\ err = ""
    /\ certs = <<CertDns, CertWild>>
    /\ DOMAIN dir0 = { NameOf(1) }
    /\ fs[NameOf(1)] = OldFile
    /\ NameOf(2) \in DOMAIN fs

\* C20: every time createIndividualCertificates skips a certificate whose
\* file exists, it prints a notice naming the file, verbose or not.
C20_NoticeOnSkip ==
    [][ (pc = "ind_stat" /\ filename \in DOMAIN fs)
        => /\ Len(out') = Len(out) + 1
           /\ out'[Len(out')].arg = filename ]_vars

----------------------------------------------------------------------------
(* Properties of the order of the stages, stated for Spec *)

\* the stage a position belongs to: 1 resolve, 2 negotiate, 3 handshake
\* and TLS session, 4 extract, 5 write, 6 returned
Stage(p) ==
    CASE p = "start" -> 1
      [] p \in {"smtp_dial", "smtp_new", "smtp_ehlo_w", "smtp_ehlo_r",
                "smtp_helo_w", "smtp_helo_r", "smtp_stls_w", "smtp_stls_r",
                "st_dial", "st_greet", "st_ehlo_w", "st_ehlo_r",
                "st_stls_w", "st_stls_r"} -> 2
      [] p \in {"tls_dial", "st_hs", "smtp_hs", "smtp_ehlo2_w",
                "smtp_ehlo2_r", "smtp_q_w", "smtp_q_r", "smtp_dq_w",
                "smtp_dq_r"} -> 3
      [] p = "got" -> 4
      [] p \in WritePcs -> 5
      [] OTHER -> 6

\* no file is created or modified unless resolution, negotiation and the
\* handshake succeeded and the chain is not empty; no connection is opened
\* when resolution fails; nothing runs after the run has ended
OnlyAfterSuccess ==
    /\ [](fs # dir0 => (~res.err /\ GotChain /\ Len(certs) >= 1))
    /\ []((Returned /\ res.err) => (conns = <<>> /\ pc = "failed"))
    /\ [][pc \notin {"failed", "done"}]_vars

\* C19: the stages run in the order resolve, negotiate, handshake, extract,
\* write: no step goes back to an earlier stage; a failure ends the run, no
\* file is created or modified unless every stage before the write
\* succeeded, and no connection is opened when resolution fails.
C19_StagesInOrder ==
    /\ OnlyAfterSuccess
    /\ [][Stage(pc') >= Stage(pc)]_vars

----------------------------------------------------------------------------
(* Properties of the file names, stated for SpecWrite *)

\* the name the file name is derived from, by the rules in their order
UsedName(cert) ==
    IF cert.cn # Empty THEN cert.cn
    ELSE IF Len(cert.dns) > 0 /\ cert.dns[1] # Empty THEN cert.dns[1]
    ELSE Empty

\* every character outside [A-Za-z0-9._-] replaced by "_"
Replaced(name) ==
    [ i \in 1..Len(name) |->
        IF name[i] \in Letters \cup Digits \cup {".", "_", "-"}
        THEN name[i] ELSE "_" ]

\* C16: a common name of the form "*." + rest gives the file name of
\* rest: the leading wildcard marker is stripped ("*.Example.Com" gives
\* "Example.Com.crt").
C16_WildcardStripped ==
    (pc = "ind_stat" /\ IsPrefix(<<"*", ".">>, certs[certNo].cn))
    => filename = Replaced(Tail0(certs[certNo].cn, 2)) \o CrtSuffix

\* C17: the file name is the replaced common name + ".crt" when the
\* common name is not empty; else the replaced first DNS name + ".crt"
\* when that is not empty; else "cert_<i>.crt" for certificate i.
C17_NamingRules ==
    pc = "ind_stat"
    => filename =
          IF UsedName(certs[certNo]) # Empty
          THEN Replaced(UsedName(certs[certNo])) \o CrtSuffix
          ELSE <<"c", "e", "r", "t", "_">> \o Itoa(certNo) \o CrtSuffix

----------------------------------------------------------------------------
(* Properties of two invocations in one directory, stated for SpecPair *)

\* C18: under every interleaving of two invocations in one working
\* directory, an individual file that exists and holds a certificate is
\* never truncated or overwritten.
C18_NoOverwrite ==
    [][ \A n \in DOMAIN fs :
           (n # res.server \o BundleSuffix /\ fs[n] # <<>>)
           => n \in DOMAIN fs' /\ fs'[n] = fs[n] ]_vars

----------------------------------------------------------------------------
(* Properties of direct TLS, stated for Spec *)

\* the operations of connection k that went over the socket in plaintext
PlainOps(k) ==
    { i \in 1..Len(conns[k].log) :
        conns[k].log[i].op \in {"read", "write"} /\ ~conns[k].log[i].enc }

\* C21: for the schemes https and tls and every scheme other than smtp,
\* imap and pop3, the run opens at most one connection, to host:port, on
\* which nothing is read or written in plaintext: the first operation is
\* the TLS handshake, with the server name set to the resolved host; a
\* chain is only got from such a handshake.
C21_DirectTls ==
    (ResolvedOk /\ res.protocol \notin {sSmtp, sImap, sPop3})
    => /\ Len(conns) <= 1
       /\ \A k \in 1..Len(conns) :
             /\ PlainOps(k) = {}
             /\ Len(conns[k].log) >= 1
             /\ conns[k].log[1].op = "handshake"
             /\ conns[k].addr = res.server \o Colon \o Itoa(res.port)
             /\ conns[k].sni = res.server
       /\ pc \in {"got", "done"} \cup WritePcs
          => Len(conns) = 1 /\ conns[1].log[1] = HandshakeOp(TRUE)

\* a run for ftp://h:25 has got its chain over direct TLS to h:25
C21_Witness ==
    /\ pc = "done"
    /\ res.protocol = sFtp
    /\ Len(conns) = 1
    /\ conns[1].addr = <<"h", ":", "2", "5">>
    /\ conns[1].sni = hShort
    /\ conns[1].log = <<HandshakeOp(TRUE), CloseOp>>

----------------------------------------------------------------------------
(* Properties of the STARTTLS reply, stated for Spec *)

\* the operation a step adds to the newest connection
Added == conns'[cur].log[Len(conns[cur].log) + 1]

\* C27: in getTLSCertificatesWithSTARTTLS the step that reads the reply to
\* the STARTTLS command goes on to the TLS handshake exactly when the read
\* returned without error, whatever the peer answered, and the step that
\* follows is the handshake on that connection.
C27_HandshakeAfterAnyReply ==
    [][ /\ (pc = "st_stls_r" /\ conns' # conns)
           => /\ Added.op = "read"
              /\ Added.ok <=> pc' = "st_hs"
        /\ (pc = "st_hs" /\ conns' # conns) => Added.op = "handshake" ]_vars

\* a pop3 peer refused the upgrade, its reply was read, and the handshake
\* was attempted and failed
C27_Witness ==
    /\ pc = "failed"
    /\ stProto = "pop3"
    /\ ~net.accept
    /\ cur = 1
    /\ Len(conns[1].log) = 5
    /\ conns[1].log[3] = ReadOp(TRUE, FALSE)
    /\ conns[1].log[4] = HandshakeOp(FALSE)

----------------------------------------------------------------------------
(* Properties of the connections' life, stated for Spec *)

\* the function called for the chain has returned to extractCertificates
NetworkDone == pc \in {"got", "failed", "done"} \cup WritePcs

\* every connection opened is closed when the network stage has returned
AllClosed == NetworkDone => \A k \in 1..Len(conns) : ~conns[k].open

\* no read, write or handshake of connection k follows a close of it
QuietAfterClose(k) ==
    \A i \in 1..Len(conns[k].log) : \A j \in (i + 1)..Len(conns[k].log) :
        conns[k].log[i].op = "close" => conns[k].log[j].op = "close"

\* C28: every connection opened during a run is closed before the run
\* returns, on the success path and on every error path, and no read or
\* write is issued on a connection after it was closed.
C28_ClosedAndQuiet ==
    /\ AllClosed
    /\ \A k \in 1..Len(conns) : QuietAfterClose(k)

\* the same, with nothing said about the connection getSMTPCertificates
\* opens itself
C28_ClosedAndQuietButSmtp ==
    /\ AllClosed
    /\ \A k \in 1..Len(conns) : conns[k].by # "smtp" => QuietAfterClose(k)

----------------------------------------------------------------------------
(* Properties of a repeated write phase, stated for SpecTwice *)

\* C25: when the write phase has run for a host and a chain and then runs
\* again for the same host and chain, the bundle it writes is the bundle
\* of the chain and nothing else, whatever the file held; during the
\* second run every individual file the first run left keeps its content;
\* and the second run ends with the directory as the first run left it.
C25_Idempotent ==
    /\ BundleWritten => fs[BundleName(res.server)] = BundleContent(certs)
    /\ run = 2
       => /\ \A n \in DOMAIN dir0 \ {BundleName(res.server)} :
                n \in DOMAIN fs /\ fs[n] = dir0[n]
          /\ pc = "done" => fs = dir0

\* a second run has ended on a chain of two certificates, with the bundle
\* and the two individual files of the first run in the directory
C25_Witness ==
    /\ run = 2
    /\ pc = "done"
    /\ certs = <<CertWild, CertCross>>
    /\ Len(fs[BundleName(res.server)]) = 7
    /\ Cardinality(DOMAIN fs) = 3

----------------------------------------------------------------------------
(* Properties of the files' places, stated for SpecSlash and SpecWrite *)

\* C26: no name of a file of the working directory holds a "/": every
\* file the write phase creates, the bundle of any resolved host and the
\* file of any certificate, is created in the working directory itself.
C26_NoSeparator == \A n \in DOMAIN fs : ~Contains(n, Slash)

\* the same for the individual files only
C26_IndividualNoSeparator ==
    pc \in {"ind_stat", "ind_create", "ind_encode"} => ~Contains(filename, Slash)

\* the same for the bundle of a target with a scheme
C26_SchemeNoSeparator ==
    parts.scheme # Absent => C26_NoSeparator

----------------------------------------------------------------------------
(* Properties of the scripts' command line, stated for SpecArgs *)

\* C24: for a target host:port whose port is 25 or 587 both scripts call
\* openssl s_client for that host and port with -starttls smtp, for port
\* 110 with -starttls pop3, for port 143 with -starttls imap.
C24_StarttlsByPort ==
    (sc.pc = "connect" /\ parts.scheme = Absent
        /\ parts.port \in { <<"2", "5">>, <<"5", "8", "7">>, <<"1", "1", "0">>,
                            <<"1", "4", "3">> })
    => /\ sc.server = parts.host
       /\ sc.port = parts.port
       /\ sc.opts = <<"-starttls", AliasScheme(PortNumber(parts.port))>>

\* the same for a port given by its service name, and for the scheme of
\* sslcerts.sh
C24_StarttlsByName ==
    /\ (sc.pc = "connect" /\ parts.scheme = Absent /\ parts.port = sSmtp)
       => sc.opts = <<"-starttls", sSmtp>>
    /\ (sc.pc = "connect" /\ sc.lang = "sh"
           /\ parts.scheme \in {sSmtp, sImap, sPop3})
       => sc.opts = <<"-starttls", parts.scheme>>

----------------------------------------------------------------------------
(* Properties of the scripts' parsers, stated for SpecScript *)

\* the lines of a certificate in PEM
PemLines(cert) == << BeginLine, Base64(cert.raw), EndLine >>

RECURSIVE AllPemLines(_)
AllPemLines(chain) ==
    IF Len(chain) = 0 THEN <<>>
    ELSE PemLines(chain[1]) \o AllPemLines(Tail(chain))

\* the lines of a file that are not empty
Filled(file) == SelectSeq(file, LAMBDA l : l # Empty)

\* the script has ended
Exited(lang) == sc.lang = lang /\ sc.pc = "exit"

\* the file sslcerts.sh names certificate k of the chain after
ShNameOf(k) ==
    LET subject == NameText(sc.style, certs[k].cn)
    IN ShCertFile(subject, k)

\* the first certificate of the chain that has the name of certificate k
FirstNamed(k) ==
    CHOOSE j \in 1..k :
        /\ ShNameOf(j) = ShNameOf(k)
        /\ \A i \in 1..(j - 1) : ShNameOf(i) # ShNameOf(k)

\* C22: sslcerts.sh, on output whose chain section holds N >= 1
\* certificates and ends with "---", exits with cert_count = N and the N
\* certificates, in their order and nothing else but empty lines, in
\* <server>_bundle.pem; every certificate's file exists, holding the
\* certificate unless a file of that name existed before it; on output
\* with no certificate it exits with status 1 and writes no file.
C22_ShCollectsChain ==
    Exited("sh")
    => LET N == Len(certs)
       IN IF N >= 1
          THEN /\ sc.status = 0
               /\ sc.count = N
               /\ Filled(fs[BundleName(sc.server)]) = AllPemLines(certs)
               /\ \A k \in 1..N :
                     /\ ShNameOf(k) \in DOMAIN fs
                     /\ fs[ShNameOf(k)] =
                           IF ShNameOf(k) \in DOMAIN dir0
                           THEN dir0[ShNameOf(k)]
                           ELSE PemLines(certs[FirstNamed(k)])
               /\ DOMAIN fs = DOMAIN dir0 \cup {BundleName(sc.server)}
                              \cup { ShNameOf(k) : k \in 1..N }
          ELSE /\ sc.status = 1
               /\ fs = dir0

\* sslcerts.sh has ended on a chain of two certificates, in a directory
\* that held the file of the first
C22_Witness ==
    /\ Exited("sh")
    /\ sc.status = 0
    /\ sc.count = 2
    /\ sc.style = "oneline"
    /\ certs[1].cn = <<"c", "a">>
    /\ certs[2].cn = hShort
    /\ DOMAIN dir0 = { <<"c", "a">> \o CrtSuffix }
    /\ Cardinality(DOMAIN fs) = 3

\* C23: sslcerts.ps1, on output whose chain section holds N >= 1
\* certificates and ends with "---", exits with certCount = N and the N
\* certificates, in their order, in <server>_bundle.pem; its parser is in
\* state "done" only after the "---" line that ends the chain section.
C23_PsCollectsChain ==
    /\ (Exited("ps1") /\ Len(certs) >= 1)
       => /\ sc.status = 0
          /\ sc.count = Len(certs)
          /\ BundleName(sc.server) \in DOMAIN fs
          /\ Filled(fs[BundleName(sc.server)]) = AllPemLines(certs)
    /\ (sc.lang = "ps1" /\ sc.state = "done") => sc.input[sc.pos] = RuleLine

\* the part of it that holds: on output without a certificate the script
\* exits with status 1 and writes no file
C23_PsNoCertificate ==
    (Exited("ps1") /\ Len(certs) = 0) => (sc.status = 1 /\ fs = dir0)

====
